---- MODULE Spec2Model ----
(***************************************************************************)
(* Model of the session-aware retrieval engine of scripts/one_shot.py:     *)
(* the pagination traversal (_navigate_to_page_number), the public         *)
(* operations with the login/session lifecycle, the listing extraction     *)
(* with its page loop, the table extraction of the snapshot dialog, the    *)
(* session-state file with its boot hydration, the hourly loop of          *)
(* tcgplayer_graph_capture.py, the artifact endpoint of app.py, and the    *)
(* cycles of tcgplayer_last_sold_monitor.py.                               *)
(***************************************************************************)
EXTENDS Integers, Sequences, FiniteSets, TLC

(* ---------------- bounds of the model ---------------- *)
\* Largest page number a caller passes / a pager shows in the free-pager mode.
MaxPage == 12

\* Largest page number asked of fetch_active_listings_in_page.
MaxArgPage == 3
\* Largest last-page number the rendered pager shows to a public operation.
MaxLastPage == 2
\* Largest page number a tracked page shows in its pager label or its URL.
MaxShownPage == 2

\* Most blocks a serialized storage state takes in the session-state file.
MaxStateBlocks == 2

\* Most segments of a path asked of the artifact endpoint.
MaxPathLen == 4

\* Most records of one scrape of the last-sold monitor, and most cycles followed.
MaxSold == 2
MaxMonitorCycles == 3

\* Most listing nodes in the pages given to one listing fetch (key cases).
MaxNodes == 3
\* Most result pages given to one listing fetch.
MaxDomPages == 2
\* Most listing nodes of the page whose field texts vary.
MaxFieldNodes == 2
\* Most <tr> elements of a table outside its thead.
MaxRows == 3
\* Most cells of one <tr>.
MaxCells == 2
\* Longest capture cycle of the graph service, in minutes.
MaxCycle == 125
\* The graph service is followed until this minute after the hour it started in.
Horizon == 200

(* ---------------- program constants ---------------- *)
\* timedelta(hours=1) in units of the loop's sleep, asyncio.sleep(60)
\* (tcgplayer_graph_capture.py:223, 238)
Hour == 60
\* RETRY_TIMES = _env_int("RETRY_TIMES", 3) (one_shot.py:43)
RETRY_TIMES == 3
\* MAX_LISTING_PAGES = _env_int("LISTING_MAX_PAGES", 20) (one_shot.py:51)
MAX_LISTING_PAGES == 20
\* guard < 20 in the two stepping loops (one_shot.py:818, 846)
GuardMax == 20
\* guard_seq < 10 in the waypoint-approach loop (one_shot.py:834)
GuardSeqMax == 10
\* the commonly exposed jump target and the stride of the last loop (one_shot.py:829, 852)
WaypointPage == 5

VARIABLES
    \* ---- pagination traversal (_navigate_to_page_number) ----
    npc,          \* position in _navigate_to_page_number
    siteMode,     \* "free": the pager may report anything; "compressed": pages 1,5,10,.. and near pages load;
                  \* "observed": every hop meets a rendered page whose label, URL and markup are tracked
                  \* "exact": every hop is confirmed and the pager then reports the page asked for
    target_page,  \* parameter target_page (reassigned by the clamp at entry)
    last_page,    \* parameter last_page (reassigned at entry)
    current,      \* before entry: what _detect_current_page reads (0 = None); afterwards the local `current`
    step,         \* local `step` of the single-step loop
    via_page,     \* local `via_page`
    guard,        \* local `guard`
    guard_seq,    \* local `guard_seq`
    hops,         \* calls of _go_to_page_via_direct_url made so far
    loopHops,     \* calls of _go_to_page_via_direct_url made by the loop now running
    visited,      \* compressed mode only: the pages the traversal has been on
    navResult,    \* "none" while running, then "true" / "false"
    shown,        \* observed mode only: the pager label, page parameter and listing markup now rendered
    hop           \* observed mode only: the last call of _go_to_page_via_direct_url: what it asked for, met and returned

navVars == <<npc, siteMode, target_page, last_page, current, step, via_page,
             guard, guard_seq, hops, loopHops, visited, navResult, shown, hop>>

VARIABLES
    \* ---- one public operation ----
    pc,               \* position in the operation
    op,               \* which public operation runs
    FORCE_STATE_ONLY, \* module constant FORCE_STATE_ONLY
    credsSet,         \* TCG_EMAIL and TCG_PASSWORD are both set
    argPage,          \* target_page of fetch_active_listings_in_page
    browserOpen,      \* the browser launched by _new_context is not closed
    contextOpen,      \* the context made by _new_context is not closed
    outcome,          \* "running", "returned" (a result dict) or "raised" (an exception left the operation)
    result,           \* the returned dict: error, artifacts key present, data fields
    loginInfo,        \* login_info: the verdict of _ensure_logged_in and of the supplementary login
    homeAuth,         \* the home page loaded in _ensure_logged_in and _is_logged_in was True
    logins,           \* one record per run of _do_login_flow
    stateWrites,      \* writes of STATE_PATH
    captures,         \* tags _save_debug was called with
    page,             \* the page the operation holds: loaded, _is_logged_in, anti-bot text
    loginCaller,      \* who runs _do_login_flow: "ensure" or "supp"
    navCall,          \* which _goto_with_retries call runs: "first" or "again"
    attempt,          \* loop variable of _goto_with_retries
    navWaits,         \* the wait_for_timeout arguments of the running (or last) _goto_with_retries call
    stages,           \* the stages run so far, in order
    pages_inspected,  \* local pages_inspected of fetch_active_listings
    navLog,           \* the attempts of the running (or last) _goto_with_retries call
    gotoResult,       \* that call: "none" while running, then "returned" or "raised"
    snap,             \* fetch_sales_snapshot: what the dialog stage met
    lastRead,         \* fetch_active_listings_in_page: the pager label read for last_page
    scan              \* fetch_active_listings: what the last pass of the page loop met

opVars == <<pc, op, FORCE_STATE_ONLY, credsSet, argPage, browserOpen, contextOpen,
            outcome, result, loginInfo, homeAuth, logins, stateWrites, captures,
            page, loginCaller, navCall, attempt, navWaits, stages, pages_inspected,
            navLog, gotoResult, snap, lastRead, scan>>

VARIABLES
    \* ---- listing extraction (_scrape_active_listings_from_dom, fetch_active_listings) ----
    lpc,              \* position in the page loop of fetch_active_listings
    lmode,            \* which inputs vary: "keys" or "fields"
    domPages,         \* the listing nodes of each result page, in page order
    pageIdx,          \* the result page now shown
    records,          \* what the last _scrape_active_listings_from_dom call returned
    aggregated,       \* local `aggregated`
    seen_listing_keys,\* local `seen_listing_keys`
    seen_signatures,  \* local `seen_signatures`
    scannedNodes      \* the nodes of the pages whose listings were extracted

listVars == <<lpc, lmode, domPages, pageIdx, records, aggregated, seen_listing_keys,
              seen_signatures, scannedNodes>>

VARIABLES
    \* ---- table extraction (_extract_tables_from_dialog_html) ----
    tpc,              \* "call" before the extraction, "done" after it
    table,            \* the <table> of the dialog markup
    tableOut          \* the entry appended to `out` for it

tabVars == <<tpc, table, tableOut>>

VARIABLES
    \* ---- graph capture service (TCGPlayerGraphCapture.run_hourly_capture) ----
    cpc,              \* position in run_hourly_capture
    clock,            \* the wall clock, in minutes since the hour the service started in
    next_hour,        \* local `next_hour`
    checkedAt,        \* local `now` of the last pass of the loop
    cycles,           \* capture cycles run by the loop
    startupCrossed,   \* an hour boundary passed during the startup cycle
    crossed           \* most hour boundaries between a look at the clock that ran a cycle and the next look

capVars == <<cpc, clock, next_hour, checkedAt, cycles, startupCrossed, crossed>>

VARIABLES
    \* ---- the session-state file shared by concurrent operations ----
    booted,           \* the module body of one_shot.py has run
    STATE_B64,        \* the environment variable STATE_B64
    stateFile,        \* STATE_PATH: whether it exists and the blocks it holds
    bootFile,         \* STATE_PATH as the boot left it
    rpc,              \* position of each of the concurrent operations
    flowsRun,         \* runs of _do_login_flow made by each operation
    pending,          \* blocks of the state each operation is about to write
    flowLog,          \* the login flows run, in order, with their verdict
    writeLog          \* the login flows whose write of STATE_PATH is complete, in order

fileVars == <<booted, STATE_B64, stateFile, bootFile, rpc, flowsRun, pending, flowLog, writeLog>>

VARIABLES
    \* ---- the artifact endpoint (app.py: artifact) ----
    apc,              \* "request" before the handler ran, "done" after it
    path,             \* the `path` query parameter, as the segments between its slashes
    stateOnDisk,      \* /app/state.json exists
    shotOnDisk,       \* /app/debug/shot.png exists
    response          \* the status of the response and the file it serves

artVars == <<apc, path, stateOnDisk, shotOnDisk, response>>

VARIABLES
    \* ---- the last-sold monitor (TCGPlayerLastSoldMonitor) ----
    mpc,              \* "new" before the constructor ran, then "monitoring"
    ALERT_ALL_NEW_SALES, \* the configuration flag ALERT_ALL_NEW_SALES
    previous_records, \* self.previous_records[page_url]: the prices of the stored records
    alerts,           \* positions of the scraped records the last cycle alerted on
    loaded,           \* what load_previous_data put into previous_records
    history           \* the scrape of every cycle so far, in order

monVars == <<mpc, ALERT_ALL_NEW_SALES, previous_records, alerts, loaded, history>>

auxVars == <<fileVars, artVars, monVars>>

vars == <<navVars, opVars, listVars, tabVars, capVars, auxVars>>

(* ---------------- helpers ---------------- *)
Max(a, b) == IF a >= b THEN a ELSE b
Min(a, b) == IF a <= b THEN a ELSE b
Abs(a) == IF a >= 0 THEN a ELSE 0 - a

OrDefaultKeepsRequest(x, d) == d
\* `x or d` on an Optional[int]: None and 0 are both falsy
OrDefault(x, d) == IF x = 0 THEN d ELSE x

\* last_page <= 0 -> 1 (one_shot.py:808-809)
NormLast(last) == IF last <= 0 THEN 1 ELSE last

\* target_page = max(1, min(last_page, target_page)) (one_shot.py:810)
ClampTargetNoUpper(target, last) == Max(1, target)
ClampTarget(target, last) == Max(1, Min(last, target))

\* next_page = max(1, min(last_page, next_page)) (one_shot.py:821, 853)
ClampNext(n, last) == Max(1, Min(last, n))

ViaPageAlwaysWaypoint(target, last) == WaypointPage
\* via_page = 5 if abs(target_page - 5) <= abs(last_page - target_page) else last_page
ViaPage(target, last) ==
    IF Abs(target - WaypointPage) <= Abs(last - target) THEN WaypointPage ELSE last

\* next page of the stride loop before clamping (one_shot.py:848-852)
StrideNext(cur, target) ==
    IF Abs(target - cur) <= WaypointPage THEN target
    ELSE cur + (IF target - cur > 0 THEN WaypointPage ELSE 0 - WaypointPage)

\* loop conditions (one_shot.py:818, 846 and 834)
StepLoopContinuesNoGuard(cur, target, g) == cur # target
StepLoopContinues(cur, target, g) == cur # target /\ g < GuardMax
ApproachContinues(cur, g) == cur < WaypointPage /\ g < GuardSeqMax

(* ---------------- the site ---------------- *)
\* What _detect_current_page can read after a hop: 0 stands for None (no pager
\* label and no page parameter), any other number is what the pager shows.
Reports == 0..(MaxPage + 1)

\* Compressed pager: pages 1, 5, 10, ... and the pages next to the shown one load.
Waypoint(n, last) == n = 1 \/ (n % WaypointPage = 0 /\ n <= last)
Reachable(n, cur, last) == Waypoint(n, last) \/ Abs(n - cur) <= WaypointPage

\* A rendered page as the hop sees it: label = the number in the pager's current-page
\* label (0: no pager or no label), url = the page parameter of page.url (0: none),
\* html = innerHTML of .product-details__listings ("absent": no such element).
Htmls == {"absent", "empty", "a", "b"}
Shown == [label : 0..MaxShownPage, url : 0..MaxShownPage, html : Htmls]
NoShown == [label |-> 0, url |-> 0, html |-> "absent"]
NoHop == [made |-> FALSE, load |-> FALSE, ok |-> FALSE, requested |-> 0, detected |-> 0,
          prev |-> NoShown]

\* `x` is falsy in the page script or in Python: null, "" (one_shot.py:698, 701, 704)
Falsy(html) == html \in {"absent", "empty"}

\* the predicate wait_for_function polls (one_shot.py:691-711) on a page that has settled
WaitForListingsRefreshIgnoresLabel(prev, now) ==
    IF now.html = "absent" THEN FALSE
    ELSE IF Falsy(prev.html) THEN ~Falsy(now.html)
    ELSE IF ~Falsy(now.html) /\ now.html # prev.html THEN TRUE
    ELSE now.url # prev.url
_wait_for_listings_refresh(prev, now) ==
    IF now.html = "absent" THEN FALSE
    ELSE IF Falsy(prev.html) THEN ~Falsy(now.html)
    ELSE IF ~Falsy(now.html) /\ now.html # prev.html THEN TRUE
    ELSE IF now.label # 0 /\ prev.label # 0 /\ now.label # prev.label THEN TRUE
    ELSE now.url # prev.url

\* one_shot.py:749-805: load = page.goto did not raise
_go_to_page_via_direct_url(load, prev, now) ==
    IF ~load THEN FALSE
    ELSE IF _wait_for_listings_refresh(prev, now) THEN TRUE
    ELSE IF now.url # prev.url THEN TRUE
    ELSE _wait_for_listings_refresh(prev, now)

\* one_shot.py:720-747: the pager label, else the page parameter, else None (0)
_detect_current_page(s) == IF s.label # 0 THEN s.label ELSE s.url

\* Outcomes of one _go_to_page_via_direct_url(next) followed by _detect_current_page:
\* load = page.goto returned (followed in observed mode only), ok = the hop was confirmed (returned True),
\* report = what _detect_current_page then reads, shown = the page then rendered
\* (after a page.goto that raised nothing reads the page again: it is left as it was).
HopOutcomes(mode, cur, next, last, sh) ==
    IF mode = "exact"
    THEN {[load |-> TRUE, ok |-> TRUE, report |-> next, shown |-> NoShown]}
    ELSE IF mode = "compressed"
    THEN {[load |-> Reachable(next, cur, last), ok |-> Reachable(next, cur, last),
           report |-> next, shown |-> NoShown]}
    ELSE IF mode = "observed"
    THEN {[load |-> TRUE, ok |-> _go_to_page_via_direct_url(TRUE, sh, s2),
           report |-> _detect_current_page(s2), shown |-> s2] : s2 \in Shown}
         \cup {[load |-> FALSE, ok |-> _go_to_page_via_direct_url(FALSE, sh, sh),
                report |-> 0, shown |-> sh]}
    ELSE {[load |-> k, ok |-> k, report |-> r, shown |-> NoShown] :
            k \in BOOLEAN, r \in Reports}

\* Observed mode only: what the last hop asked for, met and returned;
\* _detect_current_page is read after a confirmed hop only.
HopRecord(mode, o, next, sh) ==
    IF mode = "observed"
    THEN [made |-> TRUE, load |-> o.load, ok |-> o.ok, requested |-> next,
          detected |-> IF o.ok THEN o.report ELSE 0, prev |-> sh]
    ELSE NoHop

\* Page counts of the compressed-pager listings that are traversed.
CompressedLasts == {20, 50}

\* Page counts of the listings whose every hop is confirmed and reported as
\* asked, and the pages a traversal of such a listing starts on: every page,
\* and for the long listing its first and last page.
ExactLasts == {7, 30, 230}
ExactStarts(last) == IF last = 230 THEN {1, last} ELSE 1..last

Track(mode, seq, pg) == IF mode = "compressed" THEN Append(seq, pg) ELSE seq

(* ---------------- the parts at rest ---------------- *)
\* nothing happened yet at the dialog stage
NoContent == [tables |-> FALSE, stats |-> FALSE, text |-> FALSE]
NoSnap == [clicked |-> FALSE, seen |-> "none", resolved |-> FALSE, read |-> FALSE,
           content |-> NoContent]
\* the pager was not read yet
NoLastRead == [read |-> FALSE, label |-> 0, current |-> 0]
\* the page loop made no pass yet
NoScan == [made |-> FALSE, rendered |-> FALSE, repeat |-> FALSE, next |-> "none"]
NoResult == [error |-> "none", artifacts |-> FALSE, data |-> "none"]
NoLogin == [first |-> "none", retry |-> "none"]
BlankPage == [loaded |-> FALSE, loggedIn |-> FALSE, challenge |-> FALSE]

\* No public operation is running.
OpIdle ==
    /\ pc = "idle"
    /\ op = "none"
    /\ FORCE_STATE_ONLY = FALSE
    /\ credsSet = FALSE
    /\ argPage = 1
    /\ browserOpen = FALSE
    /\ contextOpen = FALSE
    /\ outcome = "running"
    /\ result = NoResult
    /\ loginInfo = NoLogin
    /\ homeAuth = FALSE
    /\ logins = <<>>
    /\ stateWrites = 0
    /\ captures = {}
    /\ page = BlankPage
    /\ loginCaller = "none"
    /\ navCall = "first"
    /\ attempt = 0
    /\ navWaits = <<>>
    /\ stages = <<>>
    /\ pages_inspected = 0
    /\ navLog = <<>>
    /\ gotoResult = "none"
    /\ snap = NoSnap
    /\ lastRead = NoLastRead
    /\ scan = NoScan

NoTable == [hasThead |-> FALSE, thead |-> <<>>, tbody |-> FALSE, trs |-> <<>>]
NoTableOut == [headers |-> <<>>, rows |-> <<>>]

\* The graph capture service is not running.
CapIdle ==
    /\ cpc = "idle"
    /\ clock = 0
    /\ next_hour = 0
    /\ checkedAt = 0
    /\ cycles = 0
    /\ startupCrossed = FALSE
    /\ crossed = 0

\* No table extraction is running.
TabIdle ==
    /\ tpc = "idle"
    /\ table = NoTable
    /\ tableOut = NoTableOut

\* No listing fetch is running.
ListIdle ==
    /\ lpc = "idle"
    /\ lmode = "keys"
    /\ domPages = <<>>
    /\ pageIdx = 0
    /\ records = <<>>
    /\ aggregated = <<>>
    /\ seen_listing_keys = {}
    /\ seen_signatures = {}
    /\ scannedNodes = <<>>

\* The operations that may run side by side.
Procs == {1, 2}
NoFile == [exists |-> FALSE, blocks |-> <<>>]

\* Nothing touches the session-state file.
FileIdle ==
    /\ booted = FALSE
    /\ STATE_B64 = "unset"
    /\ stateFile = NoFile
    /\ bootFile = NoFile
    /\ rpc = [p \in Procs |-> "idle"]
    /\ flowsRun = [p \in Procs |-> 0]
    /\ pending = [p \in Procs |-> 0]
    /\ flowLog = <<>>
    /\ writeLog = <<>>

\* No artifact is asked for.
ArtIdle ==
    /\ apc = "idle"
    /\ path = <<>>
    /\ stateOnDisk = FALSE
    /\ shotOnDisk = FALSE
    /\ response = [status |-> 0, file |-> <<>>]

\* No monitor runs.
MonIdle ==
    /\ mpc = "idle"
    /\ ALERT_ALL_NEW_SALES = FALSE
    /\ previous_records = <<>>
    /\ alerts = {}
    /\ loaded = <<>>
    /\ history = <<>>

AuxIdle == FileIdle /\ ArtIdle /\ MonIdle

\* No traversal is running.
NavIdle ==
    /\ npc = "idle"
    /\ siteMode = "free"
    /\ target_page = 1
    /\ last_page = 1
    /\ current = 1
    /\ step = 0
    /\ via_page = 0
    /\ guard = 0
    /\ guard_seq = 0
    /\ hops = 0
    /\ loopHops = 0
    /\ visited = <<>>
    /\ navResult = "none"
    /\ shown = NoShown
    /\ hop = NoHop

(* ---------------- _navigate_to_page_number ---------------- *)
NavInit ==
    /\ npc = "entry"
    /\ \/ /\ siteMode = "free"
          /\ target_page \in (0 - 1)..(MaxPage + 1)
          /\ last_page \in (0 - 1)..MaxPage
          /\ current \in Reports
          /\ shown = NoShown
       \/ /\ siteMode = "compressed"
          /\ last_page \in CompressedLasts
          /\ target_page \in 1..last_page
          /\ current = 1
          /\ shown = NoShown
       \/ /\ siteMode = "exact"
          /\ last_page \in ExactLasts
          /\ target_page \in 1..last_page
          /\ current \in ExactStarts(last_page)
          /\ shown = NoShown
       \/ /\ siteMode = "observed"
          /\ last_page = MaxLastPage
          /\ target_page \in 1..MaxLastPage
          /\ shown \in Shown
          /\ current = _detect_current_page(shown)
    /\ hop = NoHop
    /\ step = 0
    /\ via_page = 0
    /\ guard = 0
    /\ guard_seq = 0
    /\ hops = 0
    /\ loopHops = 0
    /\ visited = <<>>
    /\ navResult = "none"

Finish(res) ==
    /\ npc' = "done"
    /\ navResult' = IF res THEN "true" ELSE "false"

\* one_shot.py:807-831: clamp, detect, same-page shortcut, choice of strategy
NavEntry ==
    /\ UNCHANGED <<opVars, listVars, tabVars, capVars, auxVars>>
    /\ npc = "entry"
    /\ LET last == NormLast(last_page)
           tgt  == ClampTarget(target_page, last)
           cur  == OrDefault(current, 1)
           via  == ViaPage(tgt, last)
       IN /\ last_page' = last
          /\ target_page' = tgt
          /\ current' = cur
          /\ visited' = Track(siteMode, visited, cur)
          /\ IF cur = tgt
             THEN /\ Finish(TRUE)
                  /\ UNCHANGED <<step, via_page>>
             ELSE IF tgt <= WaypointPage \/ last <= WaypointPage
             THEN /\ step' = IF tgt > cur THEN 1 ELSE 0 - 1
                  /\ npc' = "step"
                  /\ UNCHANGED <<via_page, navResult>>
             ELSE /\ via_page' = via
                  /\ npc' = IF cur # via
                            THEN (IF via = WaypointPage /\ cur < WaypointPage THEN "approach" ELSE "via")
                            ELSE "stride"
                  /\ UNCHANGED <<step, navResult>>
    /\ UNCHANGED <<siteMode, guard, guard_seq, hops, loopHops, shown, hop>>

\* one_shot.py:818-827: one iteration (or the exit) of the single-step loop
StepLoop ==
    /\ UNCHANGED <<opVars, listVars, tabVars, capVars, auxVars>>
    /\ npc = "step"
    /\ IF StepLoopContinues(current, target_page, guard)
       THEN LET next == ClampNext(current + step, last_page)
            IN /\ guard' = guard + 1
               /\ IF next = current
                  THEN /\ Finish(current = target_page)
                       /\ UNCHANGED <<current, hops, loopHops, visited, shown, hop>>
                  ELSE \E o \in HopOutcomes(siteMode, current, next, last_page, shown) :
                         /\ hops' = hops + 1
                         /\ shown' = o.shown
                         /\ hop' = HopRecord(siteMode, o, next, shown)
                         /\ loopHops' = loopHops + 1
                         /\ IF o.ok
                            THEN /\ current' = OrDefault(o.report, next)
                                 /\ visited' = Track(siteMode, visited, OrDefault(o.report, next))
                                 /\ UNCHANGED <<npc, navResult>>
                            ELSE /\ Finish(FALSE)
                                 /\ UNCHANGED <<current, visited>>
       ELSE /\ Finish(current = target_page)
            /\ UNCHANGED <<current, guard, hops, loopHops, visited, shown, hop>>
    /\ UNCHANGED <<siteMode, target_page, last_page, step, via_page, guard_seq>>

\* one_shot.py:832-839: one iteration (or the exit) of the approach to page 5
ApproachLoop ==
    /\ UNCHANGED <<opVars, listVars, tabVars, capVars, auxVars>>
    /\ npc = "approach"
    /\ IF ApproachContinues(current, guard_seq)
       THEN LET next == current + 1
            IN \E o \in HopOutcomes(siteMode, current, next, last_page, shown) :
                 /\ guard_seq' = guard_seq + 1
                 /\ hops' = hops + 1
                 /\ shown' = o.shown
                 /\ hop' = HopRecord(siteMode, o, next, shown)
                 /\ loopHops' = loopHops + 1
                 /\ IF o.ok
                    THEN /\ current' = OrDefault(o.report, next)
                         /\ visited' = Track(siteMode, visited, OrDefault(o.report, next))
                         /\ UNCHANGED <<npc, navResult>>
                    ELSE /\ Finish(FALSE)
                         /\ UNCHANGED <<current, visited>>
       ELSE /\ npc' = "via"
            /\ loopHops' = 0
            /\ UNCHANGED <<current, guard_seq, hops, visited, navResult, shown, hop>>
    /\ UNCHANGED <<siteMode, target_page, last_page, step, via_page, guard>>

\* one_shot.py:840-845: the direct hop to the waypoint, then guard = 0
ViaHop ==
    /\ UNCHANGED <<opVars, listVars, tabVars, capVars, auxVars>>
    /\ npc = "via"
    /\ IF current # via_page
       THEN \E o \in HopOutcomes(siteMode, current, via_page, last_page, shown) :
              /\ hops' = hops + 1
              /\ shown' = o.shown
              /\ hop' = HopRecord(siteMode, o, via_page, shown)
              /\ IF o.ok
                 THEN /\ current' = OrDefault(o.report, via_page)
                      /\ visited' = Track(siteMode, visited, OrDefault(o.report, via_page))
                      /\ npc' = "stride"
                      /\ UNCHANGED navResult
                 ELSE /\ Finish(FALSE)
                      /\ UNCHANGED <<current, visited>>
       ELSE /\ npc' = "stride"
            /\ UNCHANGED <<current, hops, visited, navResult, shown, hop>>
    /\ loopHops' = 0
    /\ UNCHANGED <<siteMode, target_page, last_page, step, via_page, guard, guard_seq>>

\* one_shot.py:846-860: one iteration (or the exit) of the stride loop
StrideLoop ==
    /\ UNCHANGED <<opVars, listVars, tabVars, capVars, auxVars>>
    /\ npc = "stride"
    /\ IF StepLoopContinues(current, target_page, guard)
       THEN LET next == ClampNext(StrideNext(current, target_page), last_page)
            IN /\ guard' = guard + 1
               /\ IF next = current
                  THEN /\ Finish(current = target_page)
                       /\ UNCHANGED <<current, hops, loopHops, visited, shown, hop>>
                  ELSE \E o \in HopOutcomes(siteMode, current, next, last_page, shown) :
                         /\ hops' = hops + 1
                         /\ shown' = o.shown
                         /\ hop' = HopRecord(siteMode, o, next, shown)
                         /\ loopHops' = loopHops + 1
                         /\ IF o.ok
                            THEN /\ current' = OrDefault(o.report, next)
                                 /\ visited' = Track(siteMode, visited, OrDefault(o.report, next))
                                 /\ UNCHANGED <<npc, navResult>>
                            ELSE /\ Finish(FALSE)
                                 /\ UNCHANGED <<current, visited>>
       ELSE /\ Finish(current = target_page)
            /\ UNCHANGED <<current, guard, hops, loopHops, visited, shown, hop>>
    /\ UNCHANGED <<siteMode, target_page, last_page, step, via_page, guard_seq>>

NextNav == NavEntry \/ StepLoop \/ ApproachLoop \/ ViaHop \/ StrideLoop

InitNav == NavInit /\ OpIdle /\ ListIdle /\ TabIdle /\ CapIdle /\ AuxIdle

SpecNav == InitNav /\ [][NextNav]_vars


(* ======================= the public operations ======================= *)
Ops == {"last_sold", "snapshot", "listings", "pages", "listings_page"}

\* The decision of _ensure_logged_in (one_shot.py:281-299): signal = the home
\* page loaded and _is_logged_in(page) was True.
EnsureVerdictCredsFirst(signal, force, creds) ==
    IF creds /\ ~force THEN "login"
    ELSE IF signal THEN "used_existing_state"
    ELSE IF force THEN "state_only"
    ELSE "no_valid_state_and_no_creds"
EnsureVerdictAlwaysTriesLogin(signal, force, creds) ==
    IF signal THEN "used_existing_state"
    ELSE IF force THEN "state_only"
    ELSE "login"
EnsureVerdict(signal, force, creds) ==
    IF signal THEN "used_existing_state"
    ELSE IF force THEN "state_only"
    ELSE IF creds THEN "login"
    ELSE "no_valid_state_and_no_creds"

\* ok of a login_info verdict
VerdictOk(v) == v \in {"used_existing_state", "state_only", "login_ok"}

\* One run of _do_login_flow (one_shot.py:220-279). gotoOk: the login page
\* loaded; filledEmail / filledPass: some locator filled the field; success: the
\* polling saw _is_logged_in. The text of the final page is never read.
LoginFlowAlwaysPersists(creds, gotoOk, filledEmail, filledPass, success) ==
    IF ~creds
    THEN [raised |-> FALSE, verdict |-> "missing_credentials", visited |-> FALSE,
          wrote |-> FALSE, caps |-> {}]
    ELSE IF ~gotoOk
    THEN [raised |-> TRUE, verdict |-> "exception", visited |-> TRUE,
          wrote |-> FALSE, caps |-> {}]
    ELSE IF ~(filledEmail /\ filledPass)
    THEN [raised |-> FALSE, verdict |-> "selectors_not_found", visited |-> TRUE,
          wrote |-> FALSE, caps |-> {"login-before", "login-after"}]
    ELSE IF success
    THEN [raised |-> FALSE, verdict |-> "login_ok", visited |-> TRUE,
          wrote |-> TRUE, caps |-> {"login-before", "login-after"}]
    ELSE [raised |-> FALSE, verdict |-> "login_verification_failed", visited |-> TRUE,
          wrote |-> TRUE, caps |-> {"login-before", "login-after"}]
LoginFlow(creds, gotoOk, filledEmail, filledPass, success) ==
    IF ~creds
    THEN [raised |-> FALSE, verdict |-> "missing_credentials", visited |-> FALSE,
          wrote |-> FALSE, caps |-> {}]
    ELSE IF ~gotoOk
    THEN [raised |-> TRUE, verdict |-> "exception", visited |-> TRUE,
          wrote |-> FALSE, caps |-> {}]
    ELSE IF ~(filledEmail /\ filledPass)
    THEN [raised |-> FALSE, verdict |-> "selectors_not_found", visited |-> TRUE,
          wrote |-> FALSE, caps |-> {"login-before", "login-after"}]
    ELSE IF success
    THEN [raised |-> FALSE, verdict |-> "login_ok", visited |-> TRUE,
          wrote |-> TRUE, caps |-> {"login-before", "login-after"}]
    ELSE [raised |-> FALSE, verdict |-> "login_verification_failed", visited |-> TRUE,
          wrote |-> FALSE, caps |-> {"login-before", "login-after"}]

\* One attempt of _goto_with_retries succeeds when page.goto returns; the wait for
\* network idle that follows is inside try/except: pass (one_shot.py:168-174).
GotoAttemptOkNeedsIdle(loadOk, quiet) == loadOk /\ quiet
GotoAttemptOk(loadOk, quiet) == loadOk

\* The condition of the supplementary login (one_shot.py:350, 1056, 1138, 1203, 1282)
NeedsSupplementaryLoginIgnoringForce(loggedIn, force, creds) == ~loggedIn /\ creds
NeedsSupplementaryLoginIgnoringSignal(loggedIn, force, creds) == ~force /\ creds
NeedsSupplementaryLogin(loggedIn, force, creds) == ~loggedIn /\ ~force /\ creds

\* _anti_bot_check (one_shot.py:158-163): challenge = the title or body holds a phrase
AntiBotCheckOff(challenge) == "none"
AntiBotCheck(challenge) == IF challenge THEN "blocked_or_challenge" ELSE "none"

\* The finally clause of an operation: context.close(); browser.close()
CloseAll ==
    /\ contextOpen' = FALSE
    /\ browserOpen' = FALSE

\* return {..., "error": e, "artifacts": art, ...} after art = _save_debug(page, tag)
ReturnError(e, tag) ==
    /\ captures' = captures \cup {tag}
    /\ result' = [error |-> e, artifacts |-> TRUE, data |-> "empty"]
    /\ outcome' = "returned"
    /\ pc' = "done"
    /\ CloseAll

\* return of a result without an error key
ReturnData(d) ==
    /\ result' = [error |-> "none", artifacts |-> FALSE, data |-> d]
    /\ outcome' = "returned"
    /\ pc' = "done"
    /\ CloseAll

OpInit ==
    /\ pc = "start"
    /\ op \in Ops
    /\ FORCE_STATE_ONLY \in BOOLEAN
    /\ credsSet \in BOOLEAN
    /\ argPage \in 0..MaxArgPage
    /\ (op # "listings_page" => argPage = 1)
    /\ browserOpen = FALSE
    /\ contextOpen = FALSE
    /\ outcome = "running"
    /\ result = NoResult
    /\ loginInfo = NoLogin
    /\ homeAuth = FALSE
    /\ logins = <<>>
    /\ stateWrites = 0
    /\ captures = {}
    /\ page = BlankPage
    /\ loginCaller = "none"
    /\ navCall = "first"
    /\ attempt = 0
    /\ navWaits = <<>>
    /\ stages = <<>>
    /\ pages_inspected = 0
    /\ navLog = <<>>
    /\ gotoResult = "none"
    /\ snap = NoSnap
    /\ lastRead = NoLastRead
    /\ scan = NoScan

\* Entry of an operation: the page-number validation of
\* fetch_active_listings_in_page (one_shot.py:1179-1183), then _new_context.
OpStart ==
    /\ UNCHANGED <<navVars, listVars, tabVars, capVars, auxVars, snap, lastRead, scan>>
    /\ pc = "start"
    /\ IF op = "listings_page" /\ argPage < 1
       THEN /\ result' = [error |-> "invalid_page_number", artifacts |-> FALSE, data |-> "empty"]
            /\ outcome' = "returned"
            /\ pc' = "done"
            /\ UNCHANGED <<browserOpen, contextOpen>>
       ELSE /\ browserOpen' = TRUE
            /\ contextOpen' = TRUE
            /\ pc' = "ensure"
            /\ UNCHANGED <<result, outcome>>
    /\ UNCHANGED <<navLog, gotoResult, op, FORCE_STATE_ONLY, credsSet, argPage, loginInfo, homeAuth, logins,
                   stateWrites, captures, page, loginCaller, navCall, attempt, navWaits,
                   stages, pages_inspected>>

\* _ensure_logged_in up to its call of _do_login_flow (one_shot.py:281-299)
EnsureLoggedIn ==
    /\ UNCHANGED <<navVars, listVars, tabVars, capVars, auxVars, snap, lastRead, scan>>
    /\ pc = "ensure"
    /\ \E homeOk \in BOOLEAN, signal \in BOOLEAN :
         LET v == EnsureVerdict(homeOk /\ signal, FORCE_STATE_ONLY, credsSet)
         IN /\ homeAuth' = (homeOk /\ signal)
            /\ IF v = "login"
               THEN /\ pc' = "login"
                    /\ loginCaller' = "ensure"
                    /\ UNCHANGED loginInfo
               ELSE /\ pc' = "nav"
                    /\ loginInfo' = [loginInfo EXCEPT !.first = v]
                    /\ UNCHANGED loginCaller
    /\ stages' = Append(stages, "ensure")
    /\ UNCHANGED <<navLog, gotoResult, op, FORCE_STATE_ONLY, credsSet, argPage, browserOpen, contextOpen,
                   outcome, result, logins, stateWrites, captures, page, navCall,
                   attempt, navWaits, pages_inspected>>

\* One run of _do_login_flow, called by _ensure_logged_in (outside the try of
\* the operation) or as the supplementary login (inside it).
DoLoginFlow ==
    /\ UNCHANGED <<navVars, listVars, tabVars, capVars, auxVars, snap, lastRead, scan>>
    /\ pc = "login"
    /\ \E gotoOk \in BOOLEAN, filledEmail \in BOOLEAN, filledPass \in BOOLEAN,
          success \in BOOLEAN, challenge \in BOOLEAN :
         LET r == LoginFlow(credsSet, gotoOk, filledEmail, filledPass, success)
         IN /\ logins' = Append(logins, [caller |-> loginCaller, raised |-> r.raised,
                                         verdict |-> r.verdict, visited |-> r.visited,
                                         wrote |-> r.wrote,
                                         polled |-> (credsSet /\ gotoOk /\ filledEmail
                                                     /\ filledPass /\ success),
                                         challenge |-> (gotoOk /\ challenge)])
            /\ stateWrites' = stateWrites + (IF r.wrote THEN 1 ELSE 0)
            /\ captures' = captures \cup r.caps
            /\ IF r.raised
               THEN /\ outcome' = "raised"
                    /\ pc' = "done"
                    /\ IF loginCaller = "ensure"
                       THEN UNCHANGED <<browserOpen, contextOpen>>
                       ELSE CloseAll
                    /\ UNCHANGED <<loginInfo, page>>
               ELSE /\ IF loginCaller = "ensure"
                       THEN /\ loginInfo' = [loginInfo EXCEPT !.first = r.verdict]
                            /\ pc' = "nav"
                            /\ UNCHANGED page
                       ELSE /\ loginInfo' = [loginInfo EXCEPT !.retry = r.verdict]
                            /\ pc' = "nav"
                            /\ page' = BlankPage
                    /\ UNCHANGED <<outcome, browserOpen, contextOpen>>
    /\ navCall' = IF loginCaller = "ensure" THEN "first" ELSE "again"
    /\ navLog' = <<>>
    /\ navWaits' = <<>>
    /\ gotoResult' = "none"
    /\ UNCHANGED <<op, FORCE_STATE_ONLY, credsSet, argPage, result, homeAuth,
                   loginCaller, attempt, stages, pages_inspected>>

\* One attempt of _goto_with_retries on the target URL (one_shot.py:165-178).
\* The first call is inside the inner try of the operation (timeout_nav); the
\* call after a supplementary login is not.
NavAttempt ==
    /\ UNCHANGED <<navVars, listVars, tabVars, capVars, auxVars, snap, lastRead, scan>>
    /\ pc = "nav"
    /\ \E loadOk \in BOOLEAN, quiet \in BOOLEAN, li \in BOOLEAN, ch \in BOOLEAN :
         /\ navLog' = Append(navLog, [load |-> loadOk, quiet |-> (loadOk /\ quiet)])
         /\ IF GotoAttemptOk(loadOk, quiet)
            THEN /\ page' = [loaded |-> TRUE, loggedIn |-> li, challenge |-> ch]
                 /\ pc' = IF navCall = "first" THEN "after_nav" ELSE "probe"
                 /\ stages' = Append(stages, "nav")
                 /\ attempt' = 0
                 /\ gotoResult' = "returned"
                 /\ UNCHANGED <<navWaits, captures, result, outcome, browserOpen, contextOpen>>
            ELSE
              /\ navWaits' = Append(navWaits, 500 * (attempt + 1))
              /\ UNCHANGED page
              /\ IF attempt + 1 <= RETRY_TIMES
                 THEN /\ attempt' = attempt + 1
                      /\ UNCHANGED <<pc, stages, captures, result, outcome, browserOpen,
                                     contextOpen, gotoResult>>
                 ELSE /\ attempt' = 0
                      /\ gotoResult' = "raised"
                      /\ stages' = Append(stages, "nav")
                      /\ IF navCall = "first"
                         THEN ReturnError("timeout_nav", "nav-failed")
                         ELSE /\ outcome' = "raised"
                              /\ pc' = "done"
                              /\ CloseAll
                              /\ UNCHANGED <<captures, result>>
    /\ UNCHANGED <<op, FORCE_STATE_ONLY, credsSet, argPage, loginInfo, homeAuth, logins,
                   stateWrites, loginCaller, navCall, pages_inspected>>

\* if not _is_logged_in(page) and not FORCE_STATE_ONLY and credentials: the
\* supplementary login (one_shot.py:350-353)
SupplementaryCheck ==
    /\ UNCHANGED <<navVars, listVars, tabVars, capVars, auxVars, snap, lastRead, scan>>
    /\ pc = "after_nav"
    /\ IF NeedsSupplementaryLogin(page.loggedIn, FORCE_STATE_ONLY, credsSet)
       THEN /\ pc' = "login"
            /\ loginCaller' = "supp"
       ELSE /\ pc' = "probe"
            /\ UNCHANGED loginCaller
    /\ UNCHANGED <<navLog, gotoResult, op, FORCE_STATE_ONLY, credsSet, argPage, browserOpen, contextOpen,
                   outcome, result, loginInfo, homeAuth, logins, stateWrites, captures,
                   page, navCall, attempt, navWaits, stages, pages_inspected>>

\* what follows a clean probe: the extraction of fetch_last_sold_once, the dialog
\* opening of fetch_sales_snapshot, the container wait of the listing operations
AfterProbeSkipsContainer(o) ==
    CASE o = "last_sold"     -> "extract_sale"
      [] o = "snapshot"      -> "open_dialog"
      [] o = "pages"         -> "pages_result"
      [] o = "listings_page" -> "range_check"
      [] OTHER               -> "listings_loop"
AfterProbe(o) ==
    CASE o = "last_sold" -> "extract_sale"
      [] o = "snapshot"  -> "open_dialog"
      [] OTHER           -> "container"

\* err = _anti_bot_check(page); if err: capture and return (one_shot.py:354-358)
AntiBotProbe ==
    /\ UNCHANGED <<navVars, listVars, tabVars, capVars, auxVars, snap, lastRead, scan>>
    /\ pc = "probe"
    /\ stages' = Append(stages, "probe")
    /\ IF AntiBotCheck(page.challenge) # "none"
       THEN ReturnError(AntiBotCheck(page.challenge), "challenge")
       ELSE /\ pc' = AfterProbe(op)
            /\ UNCHANGED <<captures, result, outcome, browserOpen, contextOpen>>
    /\ UNCHANGED <<navLog, gotoResult, op, FORCE_STATE_ONLY, credsSet, argPage, loginInfo, homeAuth, logins,
                   stateWrites, page, loginCaller, navCall, attempt, navWaits,
                   pages_inspected>>


\* fetch_last_sold_once: html = page.content(); price = _extract_recent_sale_from_html
\* (one_shot.py:359-362); found = a monetary amount was found.
ExtractLastSold ==
    /\ UNCHANGED <<navVars, listVars, tabVars, capVars, auxVars, snap, lastRead, scan>>
    /\ pc = "extract_sale"
    /\ stages' = Append(stages, "extract")
    /\ \E found \in BOOLEAN : ReturnData(IF found THEN "populated" ELSE "empty")
    /\ UNCHANGED <<navLog, gotoResult, op, FORCE_STATE_ONLY, credsSet, argPage, loginInfo, homeAuth, logins,
                   stateWrites, captures, page, loginCaller, navCall, attempt, navWaits,
                   pages_inspected>>

\* _open_snapshot_dialog: `clicked` after the three activation strategies
\* (one_shot.py:980-1008): a located control was clicked, the scripted click
\* found the control, or focus and Enter did not raise
Clicked(direct, scripted, keyboard) == direct \/ scripted \/ keyboard

\* what the polling of _open_snapshot_dialog can meet before its deadline
\* (one_shot.py:1012-1036): nothing, the history dialog, another visible element
\* matching a dialog selector, or only the text "Sales History Snapshot"
SeenKinds(clicked) ==
    {"none", "other", "text"} \cup (IF clicked THEN {"history"} ELSE {})

\* the polling returns instead of raising TimeoutError
DialogAppeared(seen) == seen # "none"

\* `not tables and not stats and (not dialog_text or not dialog_text.strip())`
SnapshotEmpty(tables, stats, text) == ~tables /\ ~stats /\ ~text

\* fetch_sales_snapshot: _open_snapshot_dialog (one_shot.py:963-1038, 1069-1076)
OpenSnapshotDialog ==
    /\ UNCHANGED <<navVars, listVars, tabVars, capVars, auxVars, lastRead, scan>>
    /\ pc = "open_dialog"
    /\ stages' = Append(stages, "dialog_open")
    /\ \E direct \in BOOLEAN, scripted \in BOOLEAN, keyboard \in BOOLEAN :
       \E seen \in SeenKinds(Clicked(direct, scripted, keyboard)) :
         /\ snap' = [snap EXCEPT !.clicked = Clicked(direct, scripted, keyboard),
                                 !.seen = seen]
         /\ IF DialogAppeared(seen)
            THEN /\ captures' = captures \cup {"after-click-history"}
                 /\ pc' = "resolve_dialog"
                 /\ UNCHANGED <<result, outcome, browserOpen, contextOpen>>
            ELSE /\ captures' = captures \cup {"after-click-history", "dialog-failed"}
                 /\ result' = [error |-> "timeout_dialog", artifacts |-> TRUE, data |-> "empty"]
                 /\ outcome' = "returned"
                 /\ pc' = "done"
                 /\ CloseAll
    /\ UNCHANGED <<navLog, gotoResult, op, FORCE_STATE_ONLY, credsSet, argPage, loginInfo, homeAuth, logins,
                   stateWrites, page, loginCaller, navCall, attempt, navWaits,
                   pages_inspected>>

\* fetch_sales_snapshot: resolve the dialog, read it and extract it
\* (one_shot.py:1078-1116); found = a dialog selector resolves to a visible
\* element, readOk = inner_html and inner_text return (they are outside any
\* try/except), tables / stats / text = what the dialog holds.
ExtractSnapshot ==
    /\ UNCHANGED <<navVars, listVars, tabVars, capVars, auxVars, lastRead, scan>>
    /\ pc = "resolve_dialog"
    /\ \E found \in BOOLEAN, readOk \in BOOLEAN,
          tables \in BOOLEAN, stats \in BOOLEAN, text \in BOOLEAN :
         IF ~found
         THEN /\ ReturnError("dialog_not_found_after_open", "dialog-missing-after-open")
              /\ UNCHANGED <<stages, snap>>
         ELSE IF ~readOk
         THEN /\ snap' = [snap EXCEPT !.resolved = TRUE]
              /\ outcome' = "raised"
              /\ pc' = "done"
              /\ CloseAll
              /\ UNCHANGED <<stages, captures, result>>
         ELSE /\ stages' = Append(stages, "extract")
              /\ snap' = [snap EXCEPT !.resolved = TRUE, !.read = TRUE,
                                      !.content = [tables |-> tables, stats |-> stats,
                                                   text |-> text]]
              /\ IF SnapshotEmpty(tables, stats, text)
                 THEN ReturnError("dialog_empty", "dialog-empty")
                 ELSE /\ ReturnData("populated")
                      /\ UNCHANGED captures
    /\ UNCHANGED <<navLog, gotoResult, op, FORCE_STATE_ONLY, credsSet, argPage, loginInfo, homeAuth, logins,
                   stateWrites, page, loginCaller, navCall, attempt, navWaits,
                   pages_inspected>>

\* page.wait_for_selector(".product-details__listings") of the three listing
\* operations (one_shot.py:1151-1159, 1216-1224, 1295-1303)
WaitContainer ==
    /\ UNCHANGED <<navVars, listVars, tabVars, capVars, auxVars, snap, lastRead, scan>>
    /\ pc = "container"
    /\ stages' = Append(stages, "container_wait")
    /\ \E rendered \in BOOLEAN :
         IF ~rendered
         THEN ReturnError("listings_container_not_found", "container-missing")
         ELSE /\ pc' = CASE op = "pages"         -> "pages_result"
                         [] op = "listings_page" -> "range_check"
                         [] OTHER                -> "listings_loop"
              /\ UNCHANGED <<captures, result, outcome, browserOpen, contextOpen>>
    /\ UNCHANGED <<navLog, gotoResult, op, FORCE_STATE_ONLY, credsSet, argPage, loginInfo, homeAuth, logins,
                   stateWrites, page, loginCaller, navCall, attempt, navWaits,
                   pages_inspected>>

\* fetch_pages_in_product: last_page = _extract_last_page_number(page) and the
\* return (one_shot.py:1161-1170)
PagesResult ==
    /\ UNCHANGED <<navVars, listVars, tabVars, capVars, auxVars, snap, lastRead, scan>>
    /\ pc = "pages_result"
    /\ stages' = Append(stages, "extract")
    /\ ReturnData("populated")
    /\ UNCHANGED <<navLog, gotoResult, op, FORCE_STATE_ONLY, credsSet, argPage, loginInfo, homeAuth, logins,
                   stateWrites, captures, page, loginCaller, navCall, attempt, navWaits,
                   pages_inspected>>

\* _extract_last_page_number (one_shot.py:862-883): the number in the text of
\* the pager's last anchor; 1 when there is no such text, no number in it, the
\* number is 0 or the evaluation raised. NoLabel stands for the unreadable pager.
NoLabel == 0 - 1
ExtractLastPageNumberUnreadableAsMax(label) == IF label > 0 THEN label ELSE MAX_LISTING_PAGES
ExtractLastPageNumber(label) == IF label > 0 THEN label ELSE 1

\* fetch_active_listings_in_page: the range check and the scrape
\* (one_shot.py:1226-1261); label = what the pager shows, some = the scrape
\* found listings, sh = the page as _detect_current_page reads it (1239): its
\* result goes into the result as current_page, 0 standing for None.
ListingsInPageResult ==
    /\ UNCHANGED <<navVars, listVars, tabVars, capVars, auxVars, snap, scan>>
    /\ pc = "range_check"
    /\ \E label \in NoLabel..MaxLastPage, some \in BOOLEAN, sh \in Shown :
         /\ sh.html = (IF some THEN "a" ELSE "empty")
         /\ lastRead' = [read |-> TRUE, label |-> label,
                         current |-> IF argPage > ExtractLastPageNumber(label)
                                     THEN 0 ELSE _detect_current_page(sh)]
         /\ IF argPage > ExtractLastPageNumber(label)
            THEN /\ stages' = Append(stages, "range_check")
                 /\ result' = [error |-> "page_out_of_range", artifacts |-> FALSE, data |-> "empty"]
                 /\ outcome' = "returned"
                 /\ pc' = "done"
                 /\ CloseAll
            ELSE /\ stages' = stages \o <<"range_check", "extract">>
                 /\ ReturnData(IF some THEN "populated" ELSE "empty")
    /\ UNCHANGED <<navLog, gotoResult, op, FORCE_STATE_ONLY, credsSet, argPage, loginInfo, homeAuth, logins,
                   stateWrites, captures, page, loginCaller, navCall, attempt, navWaits,
                   pages_inspected>>

\* `while pages_inspected < MAX_LISTING_PAGES` (one_shot.py:1310)
MoreListingPages(n) == n < MAX_LISTING_PAGES

\* what one pass can meet: rendered = the container is there, repeat = its
\* signature was seen on an earlier page, next = _go_to_next_listings_page
\* ("moved": True, "none": False, "raised": its unguarded wait raised)
Scans(n) ==
    {sc \in [made : {TRUE}, rendered : BOOLEAN, repeat : BOOLEAN,
             next : {"moved", "none", "raised", "unused"}] :
        /\ sc.repeat => (sc.rendered /\ n > 0)
        /\ (sc.next = "unused") <=> (~sc.rendered \/ sc.repeat)}

\* the pass ends the loop: `break` at 1315, 1325 or 1340
ScanBreaksNever(sc) == FALSE
ScanBreaks(sc) == ~sc.rendered \/ sc.repeat \/ sc.next = "none"

\* fetch_active_listings: one iteration (or the exit) of the page loop
\* (one_shot.py:1310-1353)
ListingsLoop ==
    /\ UNCHANGED <<navVars, listVars, tabVars, capVars, auxVars, snap, lastRead>>
    /\ pc = "listings_loop"
    /\ IF MoreListingPages(pages_inspected)
       THEN /\ pages_inspected' = pages_inspected + 1
            /\ \E sc \in Scans(pages_inspected) :
                 /\ scan' = sc
                 /\ stages' = stages
                        \o (IF sc.next # "unused" THEN <<"extract">> ELSE <<>>)
                        \o (IF sc.next = "moved" THEN <<"paginate">> ELSE <<>>)
                 /\ IF sc.next = "raised"
                    THEN /\ outcome' = "raised"
                         /\ pc' = "done"
                         /\ CloseAll
                         /\ UNCHANGED result
                    ELSE IF ScanBreaks(sc)
                    THEN ReturnData(IF pages_inspected > 0 \/ sc.next # "unused"
                                    THEN "populated" ELSE "empty")
                    ELSE UNCHANGED <<pc, result, outcome, browserOpen, contextOpen>>
       ELSE /\ ReturnData("populated")
            /\ UNCHANGED <<stages, pages_inspected, scan>>
    /\ UNCHANGED <<navLog, gotoResult, op, FORCE_STATE_ONLY, credsSet, argPage, loginInfo, homeAuth, logins,
                   stateWrites, captures, page, loginCaller, navCall, attempt, navWaits>>

NextOp ==
    \/ OpStart
    \/ EnsureLoggedIn
    \/ DoLoginFlow
    \/ NavAttempt
    \/ SupplementaryCheck
    \/ AntiBotProbe
    \/ ExtractLastSold
    \/ OpenSnapshotDialog
    \/ ExtractSnapshot
    \/ WaitContainer
    \/ PagesResult
    \/ ListingsInPageResult
    \/ ListingsLoop

InitOp == OpInit /\ NavIdle /\ ListIdle /\ TabIdle /\ CapIdle /\ AuxIdle

SpecOp == InitOp /\ [][NextOp]_vars

(* ---------------- _scrape_active_listings_from_dom ---------------- *)
\* A text is the sequence of its words; a key is its base name followed by the
\* numbers of its '#n' suffixes: <<"a", 2, 2>> is the string "a#2#2".
None == 0 - 1

\* the amount of a word matching \$[0-9][0-9,]*\.?[0-9]{0,2}, in cents
MoneyOf(word) ==
    CASE word = "$5.00" -> 500
      [] word = "$1.99" -> 199
      [] OTHER -> None

\* the first run of digits of a word
DigitsOf(word) ==
    CASE word = "3" -> 3
      [] word = "$5.00" -> 5
      [] word = "$1.99" -> 1
      [] OTHER -> None

Lowered(word) == IF word = "Free" THEN "free" ELSE word

\* re.search finds the first amount of the text
RECURSIVE _to_money_float(_)
_to_money_float(text) ==
    IF text = <<>> THEN None
    ELSE IF MoneyOf(Head(text)) # None THEN MoneyOf(Head(text))
    ELSE _to_money_float(Tail(text))

_parse_shipping_text(text) ==
    IF text = <<>> THEN None
    ELSE IF \E i \in DOMAIN text : Lowered(text[i]) = "free" THEN 0
    ELSE _to_money_float(text)

\* re.search(r"\d+", ...) finds the first run of digits of the text
RECURSIVE _parse_quantity_text(_)
_parse_quantity_text(text) ==
    IF text = <<>> THEN None
    ELSE IF DigitsOf(Head(text)) # None THEN DigitsOf(Head(text))
    ELSE _parse_quantity_text(Tail(text))

\* str.strip() of a key: white space goes from the front of the name and, when
\* the key has no suffix, from its end
LStripName(name) == IF name = " " THEN "" ELSE name
StripName(name) ==
    CASE name = "a " -> "a"
      [] name = " " -> ""
      [] OTHER -> name
Strip(key) ==
    IF Len(key) = 1
    THEN (IF StripName(key[1]) = "" THEN <<>> ELSE <<StripName(key[1])>>)
    ELSE <<LStripName(key[1])>> \o Tail(key)

\* the suffix the loops settle on: the first n with key#n not yet seen
FirstFreeAlwaysFirst(key, seen, n) == n
RECURSIVE FirstFree(_, _, _)
FirstFree(key, seen, n) ==
    IF Append(key, n) \in seen THEN FirstFree(key, seen, n + 1) ELSE n

\* the key of one listing node given the keys already taken
UniqueKey(key, seen) ==
    IF key \in seen THEN Append(key, FirstFree(key, seen, 2)) ELSE key

\* priceEl.parentElement.textContent: the price node's text followed by that of
\* its sibling shipping span
PriceContext(node) == node.price \o node.ship

\* the page script: one raw record per price node, keys made unique
RECURSIVE RawListings(_, _, _, _)
RawListings(dom, i, seenKeys, out) ==
    IF i > Len(dom) THEN out
    ELSE LET node == dom[i]
             key == UniqueKey(node.key, seenKeys)
         IN RawListings(dom, i + 1, seenKeys \cup {key},
                Append(out, [key |-> key, priceText |-> node.price,
                             priceContext |-> PriceContext(node),
                             shippingText |-> node.ship,
                             shippingHasAnchor |-> node.anchor,
                             quantityText |-> node.qty, node |-> i]))

\* price_val: the price text, else the price context
PriceVal(entry) ==
    IF _to_money_float(entry.priceText) # None THEN _to_money_float(entry.priceText)
    ELSE _to_money_float(entry.priceContext)

ShippingVal(entry) ==
    LET v == IF entry.shippingHasAnchor THEN 0 ELSE _parse_shipping_text(entry.shippingText)
    IN IF v = None THEN 0 ELSE v

QuantityVal(entry) ==
    IF _parse_quantity_text(entry.quantityText) = None THEN 0
    ELSE _parse_quantity_text(entry.quantityText)

\* fallback_key: seller, condition, price, shipping and quantity joined by '|'
FallbackKey(entry) == <<"|", PriceVal(entry), ShippingVal(entry), QuantityVal(entry)>>

BaseKey(entry) == IF Strip(entry.key) # <<>> THEN Strip(entry.key) ELSE FallbackKey(entry)

\* the loop over raw_listings
RECURSIVE Processed(_, _, _, _)
Processed(raw, idx, seen_keys, out) ==
    IF idx > Len(raw) THEN out
    ELSE LET entry == raw[idx] IN
         IF PriceVal(entry) = None THEN Processed(raw, idx + 1, seen_keys, out)
         ELSE LET candidate_key == UniqueKey(BaseKey(entry), seen_keys)
              IN Processed(raw, idx + 1, seen_keys \cup {candidate_key},
                     Append(out, [_key |-> candidate_key,
                                  price |-> PriceVal(entry),
                                  shippingPrice |-> ShippingVal(entry),
                                  quantityAvailable |-> QuantityVal(entry),
                                  node |-> entry.node]))

ScrapeActiveListings(dom) == Processed(RawListings(dom, 1, {}, <<>>), 1, {}, <<>>)

(* ---------------- fetch_active_listings: the page loop ---------------- *)
\* `if dedup_key in seen_listing_keys: continue`
RECURSIVE Aggregate(_, _, _, _)
Aggregate(page_listings, i, seen, agg) ==
    IF i > Len(page_listings) THEN [seen |-> seen, agg |-> agg]
    ELSE LET dedup_key == page_listings[i]._key IN
         IF dedup_key \in seen THEN Aggregate(page_listings, i + 1, seen, agg)
         ELSE Aggregate(page_listings, i + 1, seen \cup {dedup_key},
                        Append(agg, page_listings[i]))

\* the first 4096 characters of the listings container
Signature(dom) == dom

RawKeys == {<<"a">>, <<"a ">>, <<"a", 2>>, <<" ">>}
PriceTexts == {<<"N/A">>, <<"$5.00">>}
ShippingTexts == {<<>>, <<"Free", "Shipping">>, <<"+", "$1.99", "Shipping">>}
QuantityTexts == {<<>>, <<"3", "available">>}

\* nodes that differ in key and in whether a price can be read
KeyNodes ==
    [key : RawKeys, price : PriceTexts, ship : {<<>>}, anchor : {FALSE}, qty : {<<>>}]
\* nodes that differ in their texts
FieldNodes ==
    [key : {<<"a">>}, price : PriceTexts, ship : ShippingTexts, anchor : BOOLEAN,
     qty : QuantityTexts]

Doms(nodes, n) == [1..n -> nodes]

\* p pages holding at most n nodes together
RECURSIVE PageSeqs(_, _)
PageSeqs(p, n) ==
    IF p = 0 THEN {<<>>}
    ELSE UNION {{<<d>> \o rest : d \in Doms(KeyNodes, k), rest \in PageSeqs(p - 1, n - k)} :
                k \in 0..n}

ListInit ==
    /\ lpc = "loop"
    /\ \/ /\ lmode = "keys"
          /\ domPages \in UNION {PageSeqs(p, MaxNodes) : p \in 1..MaxDomPages}
       \/ /\ lmode = "fields"
          /\ domPages \in UNION {{<<d>> : d \in Doms(FieldNodes, n)} : n \in 1..MaxFieldNodes}
    /\ pageIdx = 1
    /\ records = <<>>
    /\ aggregated = <<>>
    /\ seen_listing_keys = {}
    /\ seen_signatures = {}
    /\ scannedNodes = <<>>

\* one pass of the loop: signature, extraction, aggregation, next page
ScanPage ==
    /\ UNCHANGED <<navVars, opVars, tabVars, capVars, auxVars>>
    /\ lpc = "loop"
    /\ LET dom == domPages[pageIdx]
           signature == Signature(dom)
       IN IF signature # <<>> /\ signature \in seen_signatures
          THEN /\ lpc' = "return"
               /\ UNCHANGED <<pageIdx, records, aggregated, seen_listing_keys,
                              seen_signatures, scannedNodes>>
          ELSE LET page_listings == ScrapeActiveListings(dom)
                   a == Aggregate(page_listings, 1, seen_listing_keys, aggregated)
               IN /\ seen_signatures' = IF signature # <<>>
                                        THEN seen_signatures \cup {signature}
                                        ELSE seen_signatures
                  /\ records' = page_listings
                  /\ aggregated' = a.agg
                  /\ seen_listing_keys' = a.seen
                  /\ scannedNodes' = scannedNodes \o dom
                  /\ IF pageIdx < Len(domPages)
                     THEN pageIdx' = pageIdx + 1 /\ lpc' = "loop"
                     ELSE pageIdx' = pageIdx /\ lpc' = "return"
    /\ UNCHANGED <<lmode, domPages>>

\* the result leaves with `listings` = aggregated
ReturnListings ==
    /\ UNCHANGED <<navVars, opVars, tabVars, capVars, auxVars>>
    /\ lpc = "return"
    /\ lpc' = "done"
    /\ UNCHANGED <<lmode, domPages, pageIdx, records, aggregated, seen_listing_keys,
                   seen_signatures, scannedNodes>>

NextListings == ScanPage \/ ReturnListings

InitListings == ListInit /\ NavIdle /\ OpIdle /\ TabIdle /\ CapIdle /\ AuxIdle

SpecListings == InitListings /\ [][NextListings]_vars

(* ---------------- _extract_tables_from_dialog_html ---------------- *)
\* A <tr> is the sequence of its cells' texts. A table is its thead row (when
\* it has a thead), whether its other rows sit in a tbody, and those rows in
\* order.
CellTexts == {"Date", ""}
Trs == UNION {[1..n -> CellTexts] : n \in 0..MaxCells}

\* the texts that are not empty, in order
RECURSIVE NonEmpty(_)
NonEmpty(cells) ==
    IF cells = <<>> THEN <<>>
    ELSE IF Head(cells) # "" THEN <<Head(cells)>> \o NonEmpty(Tail(cells))
    ELSE NonEmpty(Tail(cells))

\* every <tr> of the table, in document order
AllTrs(t) == IF t.hasThead THEN <<t.thead>> \o t.trs ELSE t.trs

\* headers: the non-empty thead cells, else the cells of the first <tr>
Headers(t) ==
    IF t.hasThead THEN NonEmpty(t.thead)
    ELSE IF t.trs # <<>> THEN t.trs[1]
    ELSE <<>>

\* the rows walked: those of the tbody, or every <tr> of a table without tbody
BodyTrs(t) == IF t.tbody THEN t.trs ELSE AllTrs(t)

\* `if headers and cells == headers: continue`
SkipRowNever(headers, cells) == FALSE
SkipRow(headers, cells) == headers # <<>> /\ cells = headers

\* headers[i] or f"col_{i}", i counted from 0
ColKey(headers, i) == IF headers[i] # "" THEN <<headers[i]>> ELSE <<"col", i - 1>>

\* {key_i: cells[i] for i in range(len(cells))}: a later cell replaces an
\* earlier one that has the same key
RowDict(headers, cells) ==
    {<<ColKey(headers, i), cells[i]>> : i \in
        {j \in DOMAIN cells :
            \A k \in DOMAIN cells : k > j => ColKey(headers, k) # ColKey(headers, j)}}

\* the entry of one row: a mapping by header, else the positional list
RowEntry(headers, cells) ==
    IF headers # <<>> /\ Len(headers) = Len(cells)
    THEN [kind |-> "mapping", cells |-> <<>>, map |-> RowDict(headers, cells)]
    ELSE [kind |-> "cols", cells |-> cells, map |-> {}]

RECURSIVE Rows(_, _)
Rows(headers, trs) ==
    IF trs = <<>> THEN <<>>
    ELSE IF SkipRow(headers, Head(trs)) THEN Rows(headers, Tail(trs))
    ELSE <<RowEntry(headers, Head(trs))>> \o Rows(headers, Tail(trs))

ExtractTable(t) == [headers |-> Headers(t), rows |-> Rows(Headers(t), BodyTrs(t))]

TabInit ==
    /\ tpc = "call"
    /\ table \in [hasThead : BOOLEAN, thead : Trs, tbody : BOOLEAN,
                  trs : UNION {[1..n -> Trs] : n \in 0..MaxRows}]
    /\ ~table.hasThead => table.thead = <<>>
    /\ tableOut = NoTableOut

ExtractTables ==
    /\ UNCHANGED <<navVars, opVars, listVars, capVars, auxVars>>
    /\ tpc = "call"
    /\ tableOut' = ExtractTable(table)
    /\ tpc' = "done"
    /\ UNCHANGED table

NextTables == ExtractTables

InitTables == TabInit /\ NavIdle /\ OpIdle /\ ListIdle /\ CapIdle /\ AuxIdle

SpecTables == InitTables /\ [][NextTables]_vars

(* ---------------- TCGPlayerGraphCapture.run_hourly_capture ---------------- *)
\* the hour a minute lies in
HourOf(t) == t \div Hour

\* now.replace(minute=0, second=0, microsecond=0) + timedelta(hours=1)
NextHourAfterAnHour(now) == now + Hour
NextHour(now) == (HourOf(now) + 1) * Hour

CapInit ==
    /\ cpc = "startup"
    /\ clock \in 0..(Hour - 1)
    /\ next_hour = 0
    /\ checkedAt = clock
    /\ cycles = 0
    /\ startupCrossed = FALSE
    /\ crossed = 0

\* the initial capture, lasting d minutes, then the first next_hour
StartupCapture ==
    /\ UNCHANGED <<navVars, opVars, listVars, tabVars, auxVars>>
    /\ cpc = "startup"
    /\ \E d \in 0..MaxCycle :
         /\ clock' = clock + d
         /\ next_hour' = NextHour(clock + d)
         /\ startupCrossed' = (HourOf(clock + d) > HourOf(clock))
    /\ cpc' = "check"
    /\ UNCHANGED <<checkedAt, cycles, crossed>>

\* one pass of `while True` up to the sleep: a capture cycle of d minutes when
\* the hour has come; the next look at the clock comes a sleep after its end
HourlyCheck ==
    /\ UNCHANGED <<navVars, opVars, listVars, tabVars, auxVars>>
    /\ cpc = "check"
    /\ clock <= Horizon
    /\ checkedAt' = clock
    /\ IF clock >= next_hour
       THEN \E d \in 0..MaxCycle :
              /\ clock' = clock + d
              /\ cycles' = cycles + 1
              /\ next_hour' = NextHour(clock)
              /\ crossed' = Max(crossed, HourOf(clock + d + 1) - HourOf(clock))
       ELSE UNCHANGED <<clock, cycles, next_hour, crossed>>
    /\ cpc' = "sleep"
    /\ UNCHANGED startupCrossed

\* await asyncio.sleep(60)
MinuteSleep ==
    /\ UNCHANGED <<navVars, opVars, listVars, tabVars, auxVars>>
    /\ cpc = "sleep"
    /\ clock' = clock + 1
    /\ cpc' = "check"
    /\ UNCHANGED <<next_hour, checkedAt, cycles, startupCrossed, crossed>>

NextCapture == StartupCapture \/ HourlyCheck \/ MinuteSleep

InitCapture == CapInit /\ NavIdle /\ OpIdle /\ ListIdle /\ TabIdle /\ AuxIdle

SpecCapture == InitCapture /\ [][NextCapture]_vars

(* ======================= the session-state file ======================= *)
\* What STATE_B64 can hold, by the first step of lines 24-28 it fails at:
\* "non_ascii" (encode), "bad_padding" (b64decode), "not_utf8" (decode),
\* "not_json" (json.loads); "json" passes them all.
Blobs == {"unset", "empty", "non_ascii", "bad_padding", "not_utf8", "not_json", "json"}

\* `if _b64:` and the try block up to json.loads (one_shot.py:23-27)
BlobDecodes(blob) == blob = "json"

\* one_shot.py:22-28: the file is written when it is missing and the blob decodes
ShouldHydrateIgnoresFile(exists, blob) == BlobDecodes(blob)
ShouldHydrate(exists, blob) == ~exists /\ BlobDecodes(blob)

\* the blocks of a file: <<0, 0, k>> before the boot, <<0, 1, k>> the decoded
\* blob, <<p, n, k>> the state stored by the n-th login flow of operation p
Blocks(p, n, len) == [k \in 1..len |-> <<p, n, k>>]

\* the write puts the new blocks at the start of what the file then holds
Overlay(new, old) ==
    IF Len(old) > Len(new) THEN new \o SubSeq(old, Len(new) + 1, Len(old)) ELSE new

FileInit ==
    /\ booted = FALSE
    /\ STATE_B64 \in Blobs
    /\ stateFile \in {NoFile} \cup {[exists |-> TRUE, blocks |-> Blocks(0, 0, n)] : n \in 1..MaxStateBlocks}
    /\ bootFile = NoFile
    /\ rpc = [p \in Procs |-> "start"]
    /\ flowsRun = [p \in Procs |-> 0]
    /\ pending = [p \in Procs |-> 0]
    /\ flowLog = <<>>
    /\ writeLog = <<>>

\* one_shot.py:21-32, run once when the module is imported
Hydrate ==
    /\ UNCHANGED <<navVars, opVars, listVars, tabVars, capVars, artVars, monVars>>
    /\ ~booted
    /\ booted' = TRUE
    /\ stateFile' = IF ShouldHydrate(stateFile.exists, STATE_B64)
                    THEN [exists |-> TRUE, blocks |-> Blocks(0, 1, 1)]
                    ELSE stateFile
    /\ bootFile' = stateFile'
    /\ UNCHANGED <<STATE_B64, rpc, flowsRun, pending, flowLog, writeLog>>

\* a public operation starts: _new_context (one_shot.py:131-146)
OpBegin(p) ==
    /\ UNCHANGED <<navVars, opVars, listVars, tabVars, capVars, artVars, monVars>>
    /\ booted
    /\ rpc[p] = "start"
    /\ rpc' = [rpc EXCEPT ![p] = "ensure"]
    /\ UNCHANGED <<booted, STATE_B64, stateFile, bootFile, flowsRun, pending, flowLog, writeLog>>

\* the positions of an operation: the login of _ensure_logged_in, then the
\* supplementary login, each followed by the two halves of the write
AfterLogin(at) == IF at \in {"ensure", "ensure_open", "ensure_write"} THEN "supp" ELSE "done"
OpenOf(at) == IF at = "ensure" THEN "ensure_open" ELSE "supp_open"
WriteOf(at) == IF at = "ensure_open" THEN "ensure_write" ELSE "supp_write"

\* `if success: context.storage_state(path=STATE_PATH)` (one_shot.py:273-274)
LoginPersists(success) == success

\* _do_login_flow up to its verdict (one_shot.py:220-273), when the operation
\* runs it at this stage; run = FALSE: the stage passes without a login
LoginVerdict(p) ==
    /\ UNCHANGED <<navVars, opVars, listVars, tabVars, capVars, artVars, monVars>>
    /\ rpc[p] \in {"ensure", "supp"}
    /\ \E run \in BOOLEAN, success \in BOOLEAN :
         IF run
         THEN /\ flowsRun' = [flowsRun EXCEPT ![p] = @ + 1]
              /\ flowLog' = Append(flowLog, [proc |-> p, n |-> flowsRun[p] + 1, ok |-> success])
              /\ rpc' = [rpc EXCEPT ![p] = IF LoginPersists(success)
                                            THEN OpenOf(rpc[p])
                                            ELSE AfterLogin(rpc[p])]
         ELSE /\ success = FALSE
              /\ rpc' = [rpc EXCEPT ![p] = AfterLogin(rpc[p])]
              /\ UNCHANGED <<flowsRun, flowLog>>
    /\ UNCHANGED <<booted, STATE_B64, stateFile, bootFile, pending, writeLog>>

\* context.storage_state(path=STATE_PATH), first half: the file is opened for
\* writing, which empties it
OpenStateFile(p) ==
    /\ UNCHANGED <<navVars, opVars, listVars, tabVars, capVars, artVars, monVars>>
    /\ rpc[p] \in {"ensure_open", "supp_open"}
    /\ stateFile' = [exists |-> TRUE, blocks |-> <<>>]
    /\ \E len \in 1..MaxStateBlocks : pending' = [pending EXCEPT ![p] = len]
    /\ rpc' = [rpc EXCEPT ![p] = WriteOf(rpc[p])]
    /\ UNCHANGED <<booted, STATE_B64, bootFile, flowsRun, flowLog, writeLog>>

\* context.storage_state(path=STATE_PATH), second half: the serialized state
\* is written from the start of the file
WriteStateFile(p) ==
    /\ UNCHANGED <<navVars, opVars, listVars, tabVars, capVars, artVars, monVars>>
    /\ rpc[p] \in {"ensure_write", "supp_write"}
    /\ stateFile' = [exists |-> TRUE,
                     blocks |-> Overlay(Blocks(p, flowsRun[p], pending[p]), stateFile.blocks)]
    /\ writeLog' = Append(writeLog, [proc |-> p, n |-> flowsRun[p], len |-> pending[p]])
    /\ rpc' = [rpc EXCEPT ![p] = AfterLogin(rpc[p])]
    /\ UNCHANGED <<booted, STATE_B64, bootFile, flowsRun, pending, flowLog>>

NextFile ==
    \/ Hydrate
    \/ \E p \in Procs : OpBegin(p)
    \/ \E p \in Procs : LoginVerdict(p)
    \/ \E p \in Procs : OpenStateFile(p)
    \/ \E p \in Procs : WriteStateFile(p)

InitFile == FileInit /\ NavIdle /\ OpIdle /\ ListIdle /\ TabIdle /\ CapIdle /\ ArtIdle /\ MonIdle

SpecFile == InitFile /\ [][NextFile]_vars

(* ======================= the artifact endpoint ======================= *)
Segments == {"app", "debug", "..", "state.json", "shot.png"}
Paths == UNION {[1..n -> Segments] : n \in 0..MaxPathLen}

\* the directories and the files of the container
Dirs == {<<>>, <<"app">>, <<"app", "debug">>}
Files(state, shot) ==
    (IF state THEN {<<"app", "state.json">>} ELSE {})
        \cup (IF shot THEN {<<"app", "debug", "shot.png">>} ELSE {})

\* path.startswith("/app/debug/") (app.py:150)
StartsWithDebugDir(segs) == Len(segs) >= 3 /\ segs[1] = "app" /\ segs[2] = "debug"

Parent(dir) == IF dir = <<>> THEN <<>> ELSE SubSeq(dir, 1, Len(dir) - 1)

\* where the operating system ends up when it follows the path from `at`:
\* '..' names the parent, and every step starts from a directory (<<"?">>
\* when a step starts from something else)
RECURSIVE Resolve(_, _)
Resolve(at, segs) ==
    IF segs = <<>> THEN at
    ELSE IF at \notin Dirs THEN <<"?">>
    ELSE IF Head(segs) = ".." THEN Resolve(Parent(at), Tail(segs))
    ELSE Resolve(at \o <<Head(segs)>>, Tail(segs))

\* os.path.exists(path) (app.py:152)
Exists(segs, state, shot) == Resolve(<<>>, segs) \in Dirs \cup Files(state, shot)

ArtInit ==
    /\ apc = "request"
    /\ path \in Paths
    /\ stateOnDisk \in BOOLEAN
    /\ shotOnDisk \in BOOLEAN
    /\ response = [status |-> 0, file |-> <<>>]

\* app.py:148-155; FileResponse answers 500 for a path that is no regular file
Artifact ==
    /\ UNCHANGED <<navVars, opVars, listVars, tabVars, capVars, fileVars, monVars>>
    /\ apc = "request"
    /\ response' =
         IF ~StartsWithDebugDir(path) THEN [status |-> 400, file |-> <<>>]
         ELSE IF ~Exists(path, stateOnDisk, shotOnDisk) THEN [status |-> 404, file |-> <<>>]
         ELSE IF Resolve(<<>>, path) \in Dirs THEN [status |-> 500, file |-> <<>>]
         ELSE [status |-> 200, file |-> Resolve(<<>>, path)]
    /\ apc' = "done"
    /\ UNCHANGED <<path, stateOnDisk, shotOnDisk>>

NextArtifact == Artifact

InitArtifact == ArtInit /\ NavIdle /\ OpIdle /\ ListIdle /\ TabIdle /\ CapIdle /\ FileIdle /\ MonIdle

SpecArtifact == InitArtifact /\ [][NextArtifact]_vars

(* ======================= the last-sold monitor ======================= *)
\* the records of one scrape, each by its price in cents
Scrapes == UNION {[1..n -> {100, 250}] : n \in 0..MaxSold}

PricesOf(recs) == {recs[i] : i \in DOMAIN recs}

\* new_prices = current_prices - previous_prices (tcgplayer_last_sold_monitor.py:451-454)
NewPricesIgnoringPrevious(cur, prev) == PricesOf(cur)
NewPrices(cur, prev) == PricesOf(cur) \ PricesOf(prev)

\* compare_records: the records a change is made for (lines 445-465)
compare_records(flag, prev, cur) ==
    {i \in DOMAIN cur : cur[i] \in NewPrices(cur, prev) /\ flag}

MonInit ==
    /\ mpc = "new"
    /\ ALERT_ALL_NEW_SALES \in BOOLEAN
    /\ previous_records = <<>>
    /\ alerts = {}
    /\ loaded = <<>>
    /\ history = <<>>

\* __init__ with load_previous_data (lines 57-79): the stored records of an
\* earlier run, or none when the file is missing or cannot be read
LoadPreviousData ==
    /\ UNCHANGED <<navVars, opVars, listVars, tabVars, capVars, fileVars, artVars>>
    /\ mpc = "new"
    /\ \E data \in Scrapes :
         /\ previous_records' = data
         /\ loaded' = data
    /\ mpc' = "monitoring"
    /\ UNCHANGED <<ALERT_ALL_NEW_SALES, alerts, history>>

\* monitor_pages for one URL (lines 467-493): scrape_last_sold gives the
\* records, or none when it finds nothing or fails
MonitorPages ==
    /\ UNCHANGED <<navVars, opVars, listVars, tabVars, capVars, fileVars, artVars>>
    /\ mpc = "monitoring"
    /\ Len(history) < MaxMonitorCycles
    /\ \E current_records \in Scrapes :
         /\ history' = Append(history, current_records)
         /\ IF current_records # <<>>
            THEN /\ alerts' = compare_records(ALERT_ALL_NEW_SALES, previous_records, current_records)
                 /\ previous_records' = current_records
            ELSE /\ alerts' = {}
                 /\ UNCHANGED previous_records
    /\ UNCHANGED <<mpc, ALERT_ALL_NEW_SALES, loaded>>

NextMonitor == LoadPreviousData \/ MonitorPages

InitMonitor == MonInit /\ NavIdle /\ OpIdle /\ ListIdle /\ TabIdle /\ CapIdle /\ FileIdle /\ ArtIdle

SpecMonitor == InitMonitor /\ [][NextMonitor]_vars

(* ======================= session and operation claims ======================= *)
StagesRun == {stages[i] : i \in DOMAIN stages}

\* C1: when the home page, loaded from the persisted session state, shows the
\* authenticated signal, ensureLoggedIn returns ok with used_existing_state and
\* starts no credential login flow (no visit of the login URL, no write of the
\* state file), whatever the credential and state-only settings are.
C1_SessionReusePrecedence ==
    (homeAuth /\ pc \notin {"start", "ensure"}) =>
        /\ loginInfo.first = "used_existing_state"
        /\ VerdictOk(loginInfo.first)
        /\ \A i \in DOMAIN logins : logins[i].caller # "ensure"
        /\ (pc = "nav" /\ navCall = "first") => (logins = <<>> /\ stateWrites = 0)

C1_Witness ==
    homeAuth /\ credsSet /\ ~FORCE_STATE_ONLY /\ pc = "nav" /\ navCall = "first"
        /\ loginInfo.first = "used_existing_state" /\ logins = <<>>

\* C2: a credential login flow whose final page shows a verification /
\* one-time-code / 2FA indicator neither writes the session-state file nor
\* reports ok=true.
C2_ChallengeNonPersistence ==
    \A i \in DOMAIN logins :
        logins[i].challenge => (~logins[i].wrote /\ logins[i].verdict # "login_ok")

\* The target navigation was given up after all its retries.
NavExhausted == pc = "done" /\ "nav" \in StagesRun /\ ~page.loaded

\* C3: no public operation raises when login or navigation fails at any point;
\* a navigation that fails after all retries is reported as timeout_nav.
C3_NeverRaises ==
    /\ outcome # "raised"
    /\ NavExhausted => (outcome = "returned" /\ result.error = "timeout_nav")

\* C4: the browser and the context acquired at entry are closed on every exit
\* path of a public operation, exceptions included.
C4_ClosedOnEveryExit ==
    pc = "done" => (~browserOpen /\ ~contextOpen)

DataStages == {"extract", "dialog_open", "container_wait", "range_check", "paginate"}

\* C5: when the navigation to the target succeeded and the loaded page holds the
\* anti-automation text, the operation returns error blocked_or_challenge with
\* every data field empty, and no extraction, dialog opening, container wait or
\* pagination step was run.
C5_BlockedShortCircuit ==
    (pc = "done" /\ page.loaded /\ page.challenge) =>
        /\ outcome = "returned"
        /\ result.error = "blocked_or_challenge"
        /\ result.data = "empty"
        /\ StagesRun \cap DataStages = {}

ListedErrors ==
    {"timeout_nav", "blocked_or_challenge", "timeout_dialog", "dialog_not_found_after_open",
     "dialog_empty", "listings_container_not_found", "page_out_of_range"}

\* The tag of the diagnostic capture that belongs to an error.
CaptureOf(e) ==
    CASE e = "timeout_nav"                  -> "nav-failed"
      [] e = "blocked_or_challenge"         -> "challenge"
      [] e = "timeout_dialog"               -> "dialog-failed"
      [] e = "dialog_not_found_after_open"  -> "dialog-missing-after-open"
      [] e = "dialog_empty"                 -> "dialog-empty"
      [] e = "listings_container_not_found" -> "container-missing"
      [] OTHER                              -> "out-of-range"

\* C6: a result that carries one of the listed errors was preceded by an
\* attempted diagnostic capture and carries an artifacts field.
C6_ErrorsCarryArtifacts ==
    (outcome = "returned" /\ result.error \in ListedErrors) =>
        (result.artifacts /\ CaptureOf(result.error) \in captures)

\* The attempts of the call before the last one logged.
EarlierAttempts == 1..(Len(navLog) - 1)

\* C11: gotoWithRetries makes at most RETRY_TIMES + 1 load attempts, returns
\* right after the first attempt whose load succeeded (reaching network idle or
\* not) with no further attempt, and fails if and only if all RETRY_TIMES + 1
\* attempts failed to load.
C11_GotoWithRetries ==
    /\ Len(navLog) <= RETRY_TIMES + 1
    /\ \A i \in EarlierAttempts : ~navLog[i].load
    /\ gotoResult = "returned" <=> (navLog # <<>> /\ navLog[Len(navLog)].load)
    /\ gotoResult = "raised" <=>
           (Len(navLog) = RETRY_TIMES + 1 /\ \A i \in DOMAIN navLog : ~navLog[i].load)
    /\ gotoResult = "none" => pc \in {"start", "ensure", "login", "nav", "done"}

C11_Witness ==
    gotoResult = "returned" /\ Len(navLog) = RETRY_TIMES + 1
        /\ ~navLog[Len(navLog)].quiet /\ navCall = "again"

\* C12: with FORCE_STATE_ONLY no credential login flow is ever run, by
\* ensureLoggedIn or as a supplementary attempt, the session-state file is never
\* written, and ensureLoggedIn reports ok even without an authenticated signal.
C12_StateOnlyMode ==
    FORCE_STATE_ONLY =>
        /\ pc # "login"
        /\ logins = <<>>
        /\ stateWrites = 0
        /\ "ensure" \in StagesRun =>
             /\ VerdictOk(loginInfo.first)
             /\ loginInfo.retry = "none"
             /\ ~homeAuth => loginInfo.first = "state_only"

C12_Witness ==
    FORCE_STATE_ONLY /\ credsSet /\ ~homeAuth /\ pc = "probe" /\ page.loaded
        /\ ~page.loggedIn /\ loginInfo.first = "state_only"

OtherFailureReasons == {"missing_credentials", "selectors_not_found", "login_verification_failed"}

\* C13: every failed login attempt reports exactly one reason, and a failure on
\* a page that shows a challenge / verification indicator is reported with a
\* reason of its own, different from missing credentials, unfillable fields and
\* the authenticated signal not being seen.
C13_DistinctLoginReasons ==
    \A i \in DOMAIN logins :
        logins[i].verdict # "login_ok" =>
            /\ ~logins[i].raised
            /\ logins[i].challenge => logins[i].verdict \notin OtherFailureReasons

LoginsBy(c) == {i \in DOMAIN logins : logins[i].caller = c}

\* C14: one public operation runs the credential login flow at most twice: at
\* most once inside ensureLoggedIn and at most once as a supplementary attempt,
\* the latter only when the loaded target page shows no authenticated signal,
\* state-only mode is off and credentials are configured.
C14_AtMostTwoLogins ==
    /\ Len(logins) <= 2
    /\ Cardinality(LoginsBy("ensure")) <= 1
    /\ Cardinality(LoginsBy("supp")) <= 1
    /\ \A i \in LoginsBy("ensure") : i = 1
    /\ (pc = "login" /\ loginCaller = "supp") =>
           (page.loaded /\ ~page.loggedIn /\ ~FORCE_STATE_ONLY /\ credsSet)
    /\ LoginsBy("supp") # {} => (~FORCE_STATE_ONLY /\ credsSet /\ "nav" \in StagesRun)

C14_Witness ==
    Len(logins) = 2 /\ logins[1].caller = "ensure" /\ logins[1].verdict = "login_verification_failed"
        /\ logins[2].caller = "supp" /\ pc = "probe"

\* C15: without an authenticated signal on the home page, with state-only mode
\* off and no credentials, ensureLoggedIn returns ok=false with reason
\* no_valid_state_and_no_creds, visits no login URL and writes no state file.
C15_NoStateNoCreds ==
    (~homeAuth /\ ~FORCE_STATE_ONLY /\ ~credsSet /\ "ensure" \in StagesRun) =>
        /\ loginInfo.first = "no_valid_state_and_no_creds"
        /\ ~VerdictOk(loginInfo.first)
        /\ pc # "login"
        /\ logins = <<>>
        /\ stateWrites = 0

C15_Witness ==
    ~homeAuth /\ ~FORCE_STATE_ONLY /\ ~credsSet /\ pc = "nav"
        /\ loginInfo.first = "no_valid_state_and_no_creds"

\* the dialog stage of fetch_sales_snapshot was entered and the call is over
DialogStageOver == op = "snapshot" /\ pc = "done" /\ "dialog_open" \in StagesRun
DialogErrors == {"timeout_dialog", "dialog_not_found_after_open", "dialog_empty"}
CleanReturn == outcome = "returned" /\ result.error = "none"

\* C21: fetchSalesSnapshot returns a result without error only when the
\* resolved dialog holds a table, a stat or non-blank text; a dialog that never
\* appears gives timeout_dialog, one seen while polling but not resolvable
\* afterwards gives dialog_not_found_after_open, a present dialog holding
\* nothing gives dialog_empty, and every failed call reports exactly one of
\* these three.
C21_DialogErrors ==
    DialogStageOver =>
        /\ CleanReturn =>
               /\ snap.resolved
               /\ snap.content.tables \/ snap.content.stats \/ snap.content.text
        /\ ~CleanReturn => (outcome = "returned" /\ result.error \in DialogErrors)
        /\ snap.seen = "none" => result.error = "timeout_dialog"
        /\ (snap.seen # "none" /\ ~snap.resolved) =>
               result.error = "dialog_not_found_after_open"
        /\ (snap.resolved /\ snap.content = NoContent) => result.error = "dialog_empty"

\* C30: when no activation strategy activated the history control,
\* fetchSalesSnapshot reports an error and never returns dialog content as a
\* success.
C30_NoActivationNoSuccess ==
    (DialogStageOver /\ ~snap.clicked) => ~CleanReturn

\* C36: when fetchActiveListingsInPage returns without an error, the
\* currentPage reported in the result equals targetPage.
C36_ReportedPageIsRequested ==
    (op = "listings_page" /\ lastRead.read /\ CleanReturn) => lastRead.current = argPage

\* C22: whenever the requested page is greater than the last page read from
\* the pager (1 when the pager cannot be read), fetchActiveListingsInPage
\* returns page_out_of_range with no listings and extracts nothing.
C22_PageOutOfRange ==
    (op = "listings_page" /\ lastRead.read
        /\ argPage > (IF lastRead.label >= 1 THEN lastRead.label ELSE 1)) =>
        /\ outcome = "returned"
        /\ result.error = "page_out_of_range"
        /\ result.data = "empty"
        /\ "extract" \notin StagesRun

\* page 2 was asked of a product whose pager could not be read
C22_Witness ==
    /\ op = "listings_page"
    /\ lastRead = [read |-> TRUE, label |-> NoLabel, current |-> 0]
    /\ argPage = 2
    /\ result.error = "page_out_of_range"

\* C24: the session-state file is written only by a credential login flow
\* whose polling observed the authenticated signal, exactly once per such
\* flow; every other outcome of a login attempt and every step of an operation
\* outside the login flow leave the file as it was.
C24_StateFileWrites ==
    /\ \A i \in DOMAIN logins :
          /\ logins[i].wrote <=> logins[i].polled
          /\ logins[i].verdict \in OtherFailureReasons => ~logins[i].wrote
    /\ stateWrites = Cardinality({i \in DOMAIN logins : logins[i].polled})

\* a login that was not verified wrote nothing, the supplementary one wrote once
C24_Witness ==
    /\ pc = "done"
    /\ Len(logins) = 2
    /\ logins[1].verdict = "login_verification_failed"
    /\ logins[2].polled
    /\ stateWrites = 1

\* the stages without the second navigation that follows a supplementary login
RECURSIVE SquashNav(_)
SquashNav(seq) ==
    IF Len(seq) < 2 THEN seq
    ELSE IF seq[1] = "nav" /\ seq[2] = "nav" THEN SquashNav(Tail(seq))
    ELSE <<Head(seq)>> \o SquashNav(Tail(seq))

IsPrefix(a, b) == Len(a) <= Len(b) /\ \A i \in DOMAIN a : a[i] = b[i]

\* the stages of an operation in the order of its code
Pipeline(o) ==
    CASE o = "last_sold"     -> <<"ensure", "nav", "probe", "extract">>
      [] o = "snapshot"      -> <<"ensure", "nav", "probe", "dialog_open", "extract">>
      [] o = "pages"         -> <<"ensure", "nav", "probe", "container_wait", "extract">>
      [] o = "listings_page" -> <<"ensure", "nav", "probe", "container_wait",
                                  "range_check", "extract">>
      [] OTHER               -> <<"ensure", "nav", "probe", "container_wait">>

\* extraction and page turn take turns in the page loop of fetch_active_listings
LoopStages(seq) ==
    \A i \in DOMAIN seq : seq[i] = (IF i % 2 = 1 THEN "extract" ELSE "paginate")

StagesInOrder ==
    LET c == SquashNav(stages) IN
    IF op = "listings"
    THEN /\ IsPrefix(SubSeq(c, 1, Min(4, Len(c))), Pipeline(op))
         /\ LoopStages(SubSeq(c, 5, Len(c)))
    ELSE IsPrefix(c, Pipeline(op))

\* the stage an error code comes from
StageOfError(e) ==
    CASE e = "timeout_nav" -> "nav"
      [] e = "blocked_or_challenge" -> "probe"
      [] e = "listings_container_not_found" -> "container_wait"
      [] e = "page_out_of_range" -> "range_check"
      [] e = "timeout_dialog" -> "dialog_open"
      [] e = "dialog_not_found_after_open" -> "dialog_open"
      [] e = "dialog_empty" -> "extract"
      [] OTHER -> "none"

\* the error reported is that of the last stage run
ErrorOfLastStage ==
    (pc = "done" /\ outcome = "returned" /\ result.error # "none" /\ stages # <<>>) =>
        StageOfError(result.error) = stages[Len(stages)]

EnsureFailed == "ensure" \in StagesRun /\ loginInfo.first # "none" /\ ~VerdictOk(loginInfo.first)

\* C25: in every public operation the stages run in the fixed order
\* ensure-logged-in, navigation, anti-automation probe, container wait / range
\* check or dialog opening, extraction; the first stage that fails determines
\* the single error reported and no later stage runs after a failed stage.
C25_StagesAsStated ==
    /\ StagesInOrder
    /\ ErrorOfLastStage
    /\ EnsureFailed => (StagesRun = {"ensure"} /\ (pc = "done" => result.error # "none"))

\* C25 as amended: the stages run in that order; a failed ensure-logged-in is
\* only recorded in the login field and the navigation follows it all the same;
\* from the navigation on, the error of a returned result is that of the last
\* stage run, so no stage ran after the one that failed.
C25_StagesAmended ==
    /\ StagesInOrder
    /\ ErrorOfLastStage
    /\ (pc = "done" /\ outcome = "returned" /\ "ensure" \in StagesRun) => "nav" \in StagesRun

\* ensure-logged-in failed and the operation went on to return extracted data
C25_Witness ==
    /\ pc = "done"
    /\ EnsureFailed
    /\ outcome = "returned"
    /\ result.error = "none"
    /\ op = "listings_page"
    /\ stages = Pipeline(op)

\* C26: in gotoWithRetries the backoff waits come only between consecutive
\* attempts: the wait after the k-th failed attempt, before attempt k+1, is
\* 500 ms times k, and no wait follows the final failed attempt.
C26_BackoffBetweenAttempts ==
    /\ \A k \in DOMAIN navWaits : navWaits[k] = 500 * k
    /\ Len(navWaits) <= RETRY_TIMES
    /\ gotoResult = "raised" => Len(navWaits) = Len(navLog) - 1

\* the pass just made met a page the loop stops at
StopPage(sc) == ~sc.rendered \/ sc.repeat \/ sc.next = "none"

\* C33: fetchActiveListings always terminates: every step of the page loop
\* scans one more page or leaves the loop, at least 1 and at most
\* MAX_LISTING_PAGES pages are scanned, and the loop stops at the first page
\* whose signature was already seen, whose container does not render, or from
\* which no next-page control could be activated, and goes on from no other.
C33_PageLoopTerminates ==
    [][ pc = "listings_loop" =>
          /\ pages_inspected' \in {pages_inspected, pages_inspected + 1}
          /\ pages_inspected' <= MAX_LISTING_PAGES
          /\ pages_inspected' = pages_inspected => pc' = "done"
          /\ pages_inspected' = pages_inspected + 1 =>
                /\ StopPage(scan') => (pc' = "done" /\ outcome' = "returned")
                /\ pc' = "listings_loop" =>
                      (scan'.rendered /\ ~scan'.repeat /\ scan'.next = "moved")
          /\ (pc' = "done" /\ outcome' = "returned") => pages_inspected' >= 1 ]_vars

\* the loop ran to the page limit and the operation returned
C33_Witness ==
    /\ op = "listings" /\ outcome = "returned" /\ result.error = "none"
    /\ pages_inspected = MAX_LISTING_PAGES
    /\ scan.next = "moved"

\* the pages whose listings were extracted
PagesExtracted == Cardinality({i \in DOMAIN stages : stages[i] = "extract"})

\* C37: in the result of fetchActiveListings pagesScanned is the number of
\* pages whose listings were extracted: a page recognised as a repeat of an
\* earlier one, or whose container did not render, is not counted.
C37_PagesScannedAreExtracted ==
    (op = "listings" /\ outcome = "returned" /\ result.error = "none")
        => pages_inspected = PagesExtracted

(* ======================= pagination claims ======================= *)

\* C7: when navigateToPage returns, the page it has reached satisfies
\* 1 <= current <= lastPage, whatever the pager reported after each hop.
C7_PaginationBounds ==
    npc = "done" => (1 <= current /\ current <= last_page)

\* C8 (as stated): navigateToPage(47, 50) from page 1 over the compressed pager
\* returns true after visiting exactly 1 -> 5 -> 45 -> 47, within the guard bound.
C8_ScenarioAsStated ==
    (siteMode = "compressed" /\ npc = "done" /\ target_page = 47 /\ last_page = 50)
        => (navResult = "true" /\ visited = <<1, 5, 45, 47>> /\ hops <= GuardMax)

\* C8 (amended): the same call returns true after visiting exactly 1 -> 50 -> 47:
\* the waypoint closer to 47 is the last page, so two hops are made.
C8_ScenarioAmended ==
    (siteMode = "compressed" /\ npc = "done" /\ target_page = 47 /\ last_page = 50)
        => (navResult = "true" /\ visited = <<1, 50, 47>> /\ hops = 2 /\ hops <= GuardMax)

C8_Witness ==
    siteMode = "compressed" /\ npc = "done" /\ target_page = 47 /\ last_page = 50
        /\ navResult = "true" /\ hops = 2

\* A measure that every step of the traversal decreases.
NavRank ==
    CASE npc = "entry"    -> 400
      [] npc = "approach" -> 300 + (GuardSeqMax - guard_seq)
      [] npc = "via"      -> 200
      [] npc = "step"     -> 100 + (GuardMax - guard)
      [] npc = "stride"   -> 100 + (GuardMax - guard)
      [] OTHER            -> 0

GuardExhausted20 ==
    npc \in {"step", "stride"} /\ guard = 20 /\ current # target_page

GuardExhausted10 ==
    npc = "approach" /\ guard_seq = 10 /\ current < 5

ReturnsFalseNoHop ==
    npc' = "done" /\ navResult' = "false" /\ hops' = hops

\* C9 (as stated): navigateToPage terminates for every pager; each stepping loop
\* makes at most 20 hops; once any guard is exhausted with the target not
\* reached, the call returns false without further hops.
C9_GuardAsStated ==
    [][ /\ NavRank' < NavRank
        /\ loopHops' <= 20
        /\ (GuardExhausted20 \/ GuardExhausted10) => ReturnsFalseNoHop ]_vars

\* C9 (amended): navigateToPage terminates for every pager; each stepping loop
\* makes at most 20 hops (the approach loop at most 10, 31 hops in all); once the
\* 20-iteration guard of a stepping loop is exhausted with the target not
\* reached, the call returns false without further hops; once the 10-iteration
\* guard of the approach loop is exhausted the call goes on with the direct hop
\* to the waypoint.
C9_GuardAmended ==
    [][ /\ NavRank' < NavRank
        /\ loopHops' <= 20
        /\ hops' <= 31
        /\ (npc = "approach" => loopHops' <= 10)
        /\ GuardExhausted20 => ReturnsFalseNoHop
        /\ GuardExhausted10 => (npc' = "via" /\ hops' = hops) ]_vars

C9_Witness ==
    npc = "done" /\ navResult = "false" /\ guard = 20 /\ loopHops = 20 /\ current # target_page

\* C10: navigateToPage clamps targetPage into [1, lastPage] (lastPage <= 0 taken
\* as 1) before any navigation, and when the clamped target is the detected
\* current page it returns true with zero page navigations.
C10_ClampAndNoOp ==
    [][ /\ hops' > 0 => npc # "entry"
        /\ npc = "entry" =>
             LET L == IF last_page <= 0 THEN 1 ELSE last_page
                 T == IF target_page < 1 THEN 1
                      ELSE IF target_page > L THEN L ELSE target_page
                 C == IF current = 0 THEN 1 ELSE current
             IN /\ target_page' = T
                /\ last_page' = L
                /\ hops' = 0
                /\ (C = T) => (npc' = "done" /\ navResult' = "true")
        /\ npc # "entry" => (target_page' = target_page /\ last_page' = last_page) ]_vars

C10_Witness ==
    siteMode = "free" /\ npc = "done" /\ navResult = "true" /\ hops = 0
        /\ current = target_page /\ target_page = last_page /\ last_page > 1

\* C27: when targetPage is within 5 pages of the current page (or of lastPage),
\* navigateToPage moves toward it one page per hop and visits no waypoint page.
C27_NearTargetsStepByOne ==
    (/\ siteMode = "compressed"
     /\ npc = "done"
     /\ \/ Abs(target_page - visited[1]) <= 5
        \/ Abs(last_page - target_page) <= 5)
        => \A i \in 1..(Len(visited) - 1) : Abs(visited[i + 1] - visited[i]) = 1

\* one of the three signals differs from what it was before the hop
Changed(prev, now) ==
    now.html # prev.html \/ now.label # prev.label \/ now.url # prev.url

\* the changes a hop is confirmed by
Confirms(prev, now) ==
    \/ now.url # prev.url
    \/ now.html \notin {"absent", "empty"} /\ now.html # prev.html
    \/ /\ now.html # "absent"
       /\ prev.html \notin {"absent", "empty"}
       /\ now.label # 0 /\ prev.label # 0 /\ now.label # prev.label

UnconfirmedHopEnds == (hop.made /\ ~hop.ok) => (npc = "done" /\ navResult = "false")

\* C28 (as stated): a direct-URL hop is reported successful if and only if the
\* page load succeeded and the listing content, the current-page label or the
\* URL changed; after an unconfirmed hop navigateToPage returns false at once.
C28_HopConfirmedAsStated ==
    /\ hop.made => (hop.ok <=> (hop.load /\ Changed(hop.prev, shown)))
    /\ UnconfirmedHopEnds

\* C28 (amended): a direct-URL hop is reported successful if and only if the
\* page load succeeded and the URL changed, or the listing container holds
\* non-empty content that differs from the content before, or (the container
\* being present and the content before non-empty) the label before and the
\* label after are both non-empty and differ; after an unconfirmed hop
\* navigateToPage returns false at once.
C28_HopConfirmedAmended ==
    /\ hop.made => (hop.ok <=> (hop.load /\ Confirms(hop.prev, shown)))
    /\ UnconfirmedHopEnds

\* a hop confirmed by the label alone, and the traversal goes on
C28_Witness ==
    /\ hop.made /\ hop.ok /\ npc = "step"
    /\ shown.url = hop.prev.url /\ shown.html = hop.prev.html
    /\ shown.label # hop.prev.label

\* C29 (as stated): after every hop the current page is the value read from the
\* pager (or URL) of the newly loaded page, never the page number requested.
C29_CurrentIsReadAsStated ==
    (hop.made /\ hop.ok) => current = hop.detected

\* C29 (amended): after every confirmed hop the current page is the value read
\* from the pager label, else from the URL, of the newly loaded page whenever
\* one of them yields a non-zero number, and the requested page number only
\* when neither does; the verdict compares that value with the target.
C29_CurrentIsReadAmended ==
    (hop.made /\ hop.ok) =>
        /\ hop.detected = (IF shown.label # 0 THEN shown.label ELSE shown.url)
        /\ current = (IF hop.detected # 0 THEN hop.detected ELSE hop.requested)
        /\ npc = "done" => (navResult = "true" <=> current = target_page)

\* the pager kept showing another page than the requested target: false is returned
C29_Witness ==
    /\ npc = "done" /\ hop.made /\ hop.ok
    /\ hop.detected # 0 /\ hop.detected # hop.requested
    /\ hop.requested = target_page /\ navResult = "false"

(* ======================= listing extraction claims ======================= *)
RecordKeys == {records[i]._key : i \in DOMAIN records}

\* C16: the records returned by one extraction call have pairwise distinct
\* keys, whatever raw keys the page's listing nodes carry: repeated keys, keys
\* that already end in '#n', keys that differ only in surrounding white space.
C16_DistinctKeys ==
    \A i, j \in DOMAIN records : i # j => records[i]._key # records[j]._key

\* raw keys "a", "a", "a#2" were extracted: the repeat took "a#2", so the node
\* that came with "a#2" had to move on to "a#2#2"
C16_Witness ==
    /\ lmode = "keys"
    /\ Len(records) = 3
    /\ {<<"a">>, <<"a", 2>>, <<"a", 2, 2>>} \subseteq RecordKeys

\* a listing node whose price can be read
Parsable(node) ==
    _to_money_float(node.price) # None \/ _to_money_float(PriceContext(node)) # None
ParsableCount(nodes) == Cardinality({i \in DOMAIN nodes : Parsable(nodes[i])})

\* C17: a listing whose key collides with an earlier one is kept under a
\* suffixed key and never dropped, within one extraction call and across the
\* pages of fetch_active_listings: the listings returned are as many as the
\* price-parsable listing nodes on the pages scanned.
C17_NoListingDropped ==
    /\ \A p \in DOMAIN domPages :
           Len(ScrapeActiveListings(domPages[p])) = ParsableCount(domPages[p])
    /\ Len(aggregated) = ParsableCount(scannedNodes)

\* C20: every record's price is the amount read from the listing's own price
\* node, and a listing whose price node text holds no amount ("N/A") gives no
\* record; so a page with an "N/A" listing and a "$5.00" listing with free
\* shipping and "3 available" gives exactly one record: price 5.00, shipping
\* 0.0, quantity 3.
C20_PriceFromOwnNode ==
    (lmode = "fields" /\ lpc # "loop") =>
        LET dom == domPages[1] IN
        /\ \A i \in DOMAIN records :
               records[i].price = _to_money_float(dom[records[i].node].price)
        /\ \A n \in DOMAIN dom :
               _to_money_float(dom[n].price) = None =>
                   \A i \in DOMAIN records : records[i].node # n
        /\ ( /\ Len(dom) = 2
             /\ dom[1].price = <<"N/A">>
             /\ dom[2].price = <<"$5.00">>
             /\ dom[2].ship = <<"Free", "Shipping">>
             /\ dom[2].qty = <<"3", "available">> )
           => /\ Len(records) = 1
              /\ records[1].price = 500
              /\ records[1].shippingPrice = 0
              /\ records[1].quantityAvailable = 3

HasFree(text) == \E w \in DOMAIN text : text[w] \in {"free", "Free"}

\* C31: every record's shippingPrice is 0.0 when the shipping sibling's text
\* holds the keyword "free", otherwise the amount found in that text when there
\* is one, and 0.0 only when the text has neither.
C31_ShippingFromText ==
    (lmode = "fields" /\ lpc # "loop") =>
        \A i \in DOMAIN records :
            LET ship == domPages[1][records[i].node].ship
            IN records[i].shippingPrice =
                   (IF HasFree(ship) THEN 0
                    ELSE IF _to_money_float(ship) # None THEN _to_money_float(ship)
                    ELSE 0)

(* ======================= table extraction claims ======================= *)
\* the <tr> elements other than the one the header is read from
DataTrs(t) ==
    IF t.hasThead THEN t.trs
    ELSE IF t.trs # <<>> THEN Tail(t.trs)
    ELSE <<>>

\* the table has rows, each of a cell count different from the header's
Mismatched(t) ==
    /\ DataTrs(t) # <<>>
    /\ \A k \in DOMAIN DataTrs(t) : Len(DataTrs(t)[k]) # Len(Headers(t))

HeaderTrEntries(t) ==
    IF ~t.hasThead
    THEN (IF t.trs # <<>> /\ t.trs[1] = <<>> THEN 1 ELSE 0)
    ELSE IF t.tbody THEN 0
    ELSE IF t.thead = <<>> \/ \E c \in DOMAIN t.thead : t.thead[c] = "" THEN 1
    ELSE 0

NotHeader(r) == r # tableOut.headers
KeptTrs == SelectSeq(BodyTrs(table), NotHeader)

\* the entries of those rows (a table without headers also gives an entry to
\* each row without cells)
OfKeptTr(e) == tableOut.headers # <<>> \/ e.cells # <<>>
KeptEntries == SelectSeq(tableOut.rows, OfKeptTr)

\* the entry holds every cell of the row, in the shape the cell count asks for
EntryHoldsRow(e, r) ==
    IF Len(r) = Len(tableOut.headers)
    THEN /\ e.kind = "mapping"
         /\ Cardinality(e.map) = Len(r)
         /\ \A i \in DOMAIN r : \E kv \in e.map : kv[2] = r[i]
    ELSE e.kind = "cols" /\ e.cells = r

\* C32: every row that is not an exact duplicate of the header row yields one
\* entry that contains every cell value of the row: a label-to-value mapping
\* with one entry per cell exactly when the row's cell count equals the header
\* count, and the positional list of all cells otherwise.
C32_NoCellDropped ==
    tpc = "done" =>
        /\ Len(KeptEntries) = Len(KeptTrs)
        /\ \A k \in DOMAIN KeptTrs : EntryHoldsRow(KeptEntries[k], KeptTrs[k])

(* ======================= graph capture claims ======================= *)
\* the hour boundaries that had passed when the loop last looked at the clock
\* (the service started in hour 0)
BoundariesPassed == HourOf(checkedAt)

AllDone == \A p \in Procs : rpc[p] = "done"

\* the writes are those of the login flows that succeeded, one each
WritesOfSucceededFlows ==
    /\ \A w \in DOMAIN writeLog :
           \E f \in DOMAIN flowLog :
               /\ flowLog[f].proc = writeLog[w].proc
               /\ flowLog[f].n = writeLog[w].n
               /\ flowLog[f].ok
    /\ \A v, w \in DOMAIN writeLog :
           (writeLog[v].proc = writeLog[w].proc /\ writeLog[v].n = writeLog[w].n) => v = w
    /\ AllDone =>
           Len(writeLog) = Cardinality({f \in DOMAIN flowLog : flowLog[f].ok})

\* C34: with two public operations interleaved in any order the session-state
\* file is written only by login flows that succeeded, once by each, and after
\* both operations have finished it holds exactly the state written by the
\* last of those writes (the content the boot left when no login succeeded).
C34_LastWriteWins ==
    /\ WritesOfSucceededFlows
    /\ AllDone =>
           stateFile = (IF writeLog = <<>> THEN bootFile
                        ELSE LET w == writeLog[Len(writeLog)]
                             IN [exists |-> TRUE, blocks |-> Blocks(w.proc, w.n, w.len)])

\* C40: at process start the session-state file is created from the blob of
\* the environment only when no state file exists and the blob decodes to
\* valid JSON; hydration never overwrites an existing state file, and an
\* undecodable or non-JSON blob leaves no state file behind.
C40_Hydration ==
    [][ ~booted =>
          /\ (stateFile' # stateFile) =>
                /\ ~stateFile.exists
                /\ STATE_B64 = "json"
                /\ stateFile' = [exists |-> TRUE, blocks |-> Blocks(0, 1, 1)]
          /\ stateFile.exists => stateFile' = stateFile
          /\ (~stateFile.exists /\ STATE_B64 # "json") => ~stateFile'.exists
          /\ (~stateFile.exists /\ STATE_B64 = "json") => stateFile'.exists ]_vars

\* the boot met no file and a blob that decodes: the file holds the blob
C40_Witness ==
    /\ booted /\ STATE_B64 = "json"
    /\ bootFile = [exists |-> TRUE, blocks |-> Blocks(0, 1, 1)]
    /\ \A p \in Procs : rpc[p] = "start"

\* C35: if every direct-URL hop succeeds and the pager then reports exactly
\* the requested page, navigateToPage returns true having reached targetPage,
\* for every current page, targetPage and lastPage in range (a target of at
\* most 5 approached from more than 20 pages away, and a target more than 100
\* pages from both waypoints, included).
C35_ExactPagerReachesTarget ==
    (siteMode = "exact" /\ npc = "done") =>
        (navResult = "true" /\ current = target_page)

(* ======================= artifact endpoint claims ======================= *)
InDebugDir(file) == Len(file) >= 3 /\ file[1] = "app" /\ file[2] = "debug"

\* C38: the artifact endpoint serves a file only if the file lies inside
\* /app/debug/: no request path, one with '..' segments after the prefix
\* included, makes it return a file outside that directory.
C38_ServesOnlyDebugFiles ==
    (apc = "done" /\ response.status = 200) => InDebugDir(response.file)

(* ======================= last-sold monitor claims ======================= *)
\* the records stored from the most recent of these cycles whose scrape was
\* not empty; what an earlier run left when there is none
RECURSIVE StoredAfter(_, _)
StoredAfter(runs, start) ==
    IF runs = <<>> THEN start
    ELSE IF runs[Len(runs)] # <<>> THEN runs[Len(runs)]
    ELSE StoredAfter(SubSeq(runs, 1, Len(runs) - 1), start)

\* C39: with ALERT_ALL_NEW_SALES enabled an alert is emitted for a scraped
\* record if and only if its price is not among the prices of the records
\* stored from the most recent cycle whose scrape was non-empty; so the second
\* of two consecutive cycles with the same scrape emits no alert, and a cycle
\* whose scrape is empty or fails leaves the stored records unchanged.
C39_AlertsOnNewPrices ==
    (ALERT_ALL_NEW_SALES /\ history # <<>>) =>
        LET n == Len(history)
            scraped == history[n]
            before == SubSeq(history, 1, n - 1)
            stored == StoredAfter(before, loaded)
        IN /\ \A i \in DOMAIN scraped :
                  i \in alerts <=> (\A j \in DOMAIN stored : stored[j] # scraped[i])
           /\ alerts \subseteq DOMAIN scraped
           /\ (n >= 2 /\ history[n - 1] = scraped) => alerts = {}
           /\ scraped = <<>> => previous_records = stored
           /\ previous_records = StoredAfter(history, loaded)

\* an empty scrape lies between two scrapes: the third cycle alerts on the
\* price that the first cycle did not store, and not on the one it stored
C39_Witness ==
    /\ ALERT_ALL_NEW_SALES
    /\ Len(history) = 3
    /\ history[1] = <<100>> /\ history[2] = <<>> /\ history[3] = <<100, 250>>
    /\ alerts = {2}
====
